---------------------------- MODULE Spec2Model ----------------------------
(***************************************************************************)
(* A model of the data core of ballestj/unisearch:                         *)
(*   - UniversityDataIntegrator (backend/google_sheets_integration.py):    *)
(*     name standardisation, fuzzy matching, merge of the feedback and QS  *)
(*     datasets, and the rows written to the universities table;           *)
(*   - UniversityDataCleaner (data_pipeline/processors/data_cleaner.py):   *)
(*     greedy duplicate clustering and the per-field merge of a cluster;   *)
(*   - RecommendationEngine (app/routes/recommendations.py): the weighted  *)
(*     match score;                                                        *)
(*   - the normalisers and parsers of both (names, countries, cities,      *)
(*     ranks, scores), called on raw values.                               *)
(*                                                                         *)
(* Representation.                                                         *)
(*   A name is a sequence of whitespace-separated tokens; a token is a     *)
(*   record [w, k] of its lower-case text w and its letter case k          *)
(*   ("lower", "cap" = first letter upper-case, "upper").  A parenthetical *)
(*   group "(...)", a dash and a comma are tokens of their own.            *)
(*   None (Python None / pandas NaN) is Null for numbers and NoName for    *)
(*   names.  A DataFrame is a sequence of rows, a row a function from the  *)
(*   column names it has to values.                                        *)
(*   thefuzz is a library outside the repository: its four measures are a  *)
(*   table `sim` over pairs of lower-cased names, drawn in Init, fixed to  *)
(*   100 on identical non-empty strings and below the threshold when one   *)
(*   side is empty.  The weighted sum is kept exact, in hundredths.        *)
(***************************************************************************)
EXTENDS Integers, Sequences, FiniteSets, TLC

VARIABLES
    pc,                     \* which operation has run
    sim,                    \* the fuzz measures of the name pairs in play
    feedback_universities,  \* find_university_matches: first argument
    qs_universities,        \* find_university_matches: second argument
    matches,                \* find_university_matches: the returned dict
    feedback_df,            \* merge_data_sources: the aggregated feedback
    qs_df,                  \* merge_data_sources: the QS rankings
    merged_df,              \* merge_data_sources: the returned DataFrame
    db,                     \* the rows of the universities table
    df,                     \* _handle_duplicates: the cleaned input rows
    ratio,                  \* fuzz.ratio of the name pairs in play
    duplicates,             \* _handle_duplicates: the duplicate groups
    deduplicated,           \* _handle_duplicates: the returned rows
    university,             \* calculate_match_score: the University
    profile,                \* calculate_match_score: the UserProfile
    match_score,            \* calculate_match_score: the returned score
    fn,                     \* the normaliser or parser called
    arg,                    \* its raw argument
    out,                    \* what each successive call returned
    raw_df,                 \* clean_dataset: the raw rows
    validated,              \* _validate_data: the returned rows
    university_name_cache,  \* clean_university_name: the cleaner's shared cache
    threads,                \* clean_university_name: the calls in progress
    stats,                  \* DatabaseImporter: self.stats
    update_existing,        \* import_from_dataframe: its argument
    table,                  \* the committed rows of the universities table
    session,                \* DatabaseImporter: the objects of self.session
    imported,               \* the rank values each university has been sent
    universities_db,        \* universities.db: whether the table exists, and last_updated of its rows
    clock,                  \* the time, in hours UTC
    local_offset,           \* local time minus UTC, in hours
    force_sync,             \* sync_if_needed: its argument
    sync_outcome,           \* sync_if_needed: what it returned and whether it synced
    max_retries,            \* BaseRankingScraper: self.max_retries
    retries,                \* make_request: its argument retries
    attempts,               \* the outcome of each HTTP attempt so far
    response                \* make_request: the attempt whose response it returned, 0 for None

matcherVars == <<feedback_universities, qs_universities, matches>>
integratorVars == <<feedback_df, qs_df, merged_df, db>>
cleanerVars == <<df, ratio, duplicates, deduplicated>>
scorerVars == <<university, profile, match_score>>
callVars == <<fn, arg, out>>
pipelineVars == <<raw_df, validated>>
cacheVars == <<university_name_cache, threads>>
importerVars == <<stats, update_existing, table, session, imported>>
schedulerVars == <<universities_db, clock, local_offset, force_sync, sync_outcome>>
scraperVars == <<max_retries, retries, attempts, response>>

vars == <<pc, sim, matcherVars, integratorVars, cleanerVars, scorerVars, callVars,
          pipelineVars, cacheVars,
      importerVars,
      schedulerVars,
      scraperVars>>

\* what an operation of one component leaves alone
exceptMatcher ==
    <<integratorVars, cleanerVars, scorerVars, callVars, pipelineVars,
      cacheVars,
      importerVars,
      schedulerVars,
      scraperVars>>
exceptIntegrator ==
    <<matcherVars, cleanerVars, scorerVars, callVars, pipelineVars,
      cacheVars,
      importerVars,
      schedulerVars,
      scraperVars>>
exceptCleaner ==
    <<sim, matcherVars, integratorVars, scorerVars, callVars, pipelineVars,
      cacheVars,
      importerVars,
      schedulerVars,
      scraperVars>>
exceptScorer ==
    <<sim, matcherVars, integratorVars, cleanerVars, callVars, pipelineVars,
      cacheVars,
      importerVars,
      schedulerVars,
      scraperVars>>
exceptCall ==
    <<sim, matcherVars, integratorVars, cleanerVars, scorerVars, pipelineVars,
      cacheVars,
      importerVars,
      schedulerVars,
      scraperVars>>
exceptPipeline ==
    <<sim, matcherVars, integratorVars, cleanerVars, scorerVars, callVars,
      cacheVars,
      importerVars,
      schedulerVars,
      scraperVars>>
exceptCache ==
    <<sim, matcherVars, integratorVars, cleanerVars, scorerVars, callVars,
      pipelineVars,
      importerVars,
      schedulerVars,
      scraperVars>>
exceptImporter ==
    <<sim, matcherVars, integratorVars, scorerVars, callVars, pipelineVars,
      cacheVars,
      schedulerVars,
      scraperVars>>
exceptScheduler ==
    <<sim, matcherVars, integratorVars, cleanerVars, scorerVars, callVars,
      pipelineVars, cacheVars, importerVars,
      scraperVars>>

Null == 0 - 1

\* pd.DataFrame()
EmptyFrame == [columns |-> {}, rows |-> <<>>]

\* {}
EmptyDict == [k \in {} |-> <<>>]

\* the components an operation sequence does not use
MatcherIdle ==
    /\ feedback_universities = <<>>
    /\ qs_universities = <<>>
    /\ matches = EmptyDict

IntegratorIdle ==
    /\ feedback_df = EmptyFrame
    /\ qs_df = EmptyFrame
    /\ merged_df = EmptyFrame
    /\ db = <<>>

CleanerIdle ==
    /\ df = <<>>
    /\ ratio = EmptyDict
    /\ duplicates = <<>>
    /\ deduplicated = <<>>

ScorerIdle ==
    /\ university = EmptyDict
    /\ profile = EmptyDict
    /\ match_score = <<0, 1>>

CallIdle ==
    /\ fn = ""
    /\ arg = <<>>
    /\ out = <<>>

PipelineIdle ==
    /\ raw_df = <<>>
    /\ validated = <<>>

CacheIdle ==
    /\ university_name_cache = EmptyDict
    /\ threads = <<>>

ImporterIdle ==
    /\ stats = EmptyDict
    /\ update_existing = FALSE
    /\ table = <<>>
    /\ session = EmptyDict
    /\ imported = EmptyDict

SchedulerIdle ==
    /\ universities_db = EmptyDict
    /\ clock = 0
    /\ local_offset = 0
    /\ force_sync = FALSE
    /\ sync_outcome = EmptyDict

ScraperIdle ==
    /\ max_retries = 0
    /\ retries = 0
    /\ attempts = <<>>
    /\ response = 0


(***************************************************************************)
(* Names and tokens                                                        *)
(***************************************************************************)
T(w, k) == [w |-> w, k |-> k]

NoName == << T("None", "None") >>

\* tokens that do not start with a letter: str.capitalize() only lower-cases them
IsPunct(t) == t.w \in {"(usa)", "(a)", "(b)", "(x)", "-", ",", "42", "0"}
IsParen(t) == t.w \in {"(usa)", "(a)", "(b)", "(x)"}

\* str.lower() and str.capitalize() of one word
LowerWord(t) == T(t.w, "lower")
Capitalize(t) == IF IsPunct(t) THEN T(t.w, "lower") ELSE T(t.w, "cap")

\* str.lower() of a name
LowerName(name) == [i \in 1..Len(name) |-> LowerWord(name[i])]

\* re.sub of a one-word pattern (case-insensitive) by a literal
ReplaceWord(name, words, lit) ==
    [i \in 1..Len(name) |-> IF name[i].w \in words THEN lit ELSE name[i]]

\* re.sub of a two-word pattern (case-insensitive) by two literal words,
\* scanning left to right over non-overlapping matches
RECURSIVE ReplacePair(_, _, _, _, _)
ReplacePair(name, first, second, lit1, lit2) ==
    IF Len(name) < 2 THEN name
    ELSE IF name[1].w \in first /\ name[2].w \in second
         THEN <<lit1, lit2>> \o ReplacePair(SubSeq(name, 3, Len(name)),
                                            first, second, lit1, lit2)
         ELSE <<name[1]>> \o ReplacePair(Tail(name), first, second, lit1, lit2)

\* re.sub of a one-word pattern anchored at the end of the string
ReplaceLastWord(name, words, lit) ==
    IF Len(name) > 0 /\ name[Len(name)].w \in words
    THEN [name EXCEPT ![Len(name)] = lit]
    ELSE name

\* the replacements dict of standardize_university_name, in dict order
ApplyReplacements(name) ==
    LET University == T("university", "cap")
        Institute  == T("institute", "cap")
        Technology == T("technology", "cap")
        College    == T("college", "cap")
        Of         == T("of", "lower")
        r1  == ReplaceWord(name, {"univ", "univ."}, University)
        r2  == ReplacePair(r1, {"university"}, {"of"}, University, Of)
        r3  == ReplacePair(r2, {"u", "u."}, {"of"}, University, Of)
        r4  == ReplaceLastWord(r3, {"u."}, University)
        r5  == ReplaceLastWord(r4, {"univ."}, University)
        r6  == ReplaceWord(r5, {"inst", "inst."}, Institute)
        r7  == ReplacePair(r6, {"institute"}, {"of"}, Institute, Of)
        r8  == ReplaceWord(r7, {"tech", "tech."}, Technology)
        r9  == ReplaceWord(r8, {"technical"}, Technology)
        r10 == ReplaceWord(r9, {"coll", "coll."}, College)
        r11 == ReplacePair(r10, {"college"}, {"of"}, College, Of)
        r12 == ReplacePair(r11, {"state"}, {"u", "u."},
                           T("state", "cap"), University)
        r13 == ReplacePair(r12, {"st."}, {"u", "u."},
                           T("state", "cap"), University)
    IN r13

\* r'\s*\([^)]*\)\s*$': one parenthetical group at the end
StripTrailingParen(name) ==
    IF Len(name) > 0 /\ IsParen(name[Len(name)])
    THEN SubSeq(name, 1, Len(name) - 1)
    ELSE name

\* r'\s*-\s*.*$' and r'\s*,\s*.*$': everything from the first separator on
StripFrom(name, sep) ==
    IF \E i \in 1..Len(name) : name[i].w = sep
    THEN LET first == CHOOSE i \in 1..Len(name) :
                         /\ name[i].w = sep
                         /\ \A j \in 1..(i - 1) : name[j].w # sep
         IN SubSeq(name, 1, first - 1)
    ELSE name

RemoveSuffixes(name) ==
    StripFrom(StripFrom(StripTrailingParen(name), "-"), ",")

\* the title-casing loop of standardize_university_name
Exceptions == {"of", "the", "and", "in", "at", "by", "for", "to", "with", "on"}

TitleCase(words) ==
    [i \in 1..Len(words) |->
        IF i = 1 \/ words[i].w \notin Exceptions
        THEN Capitalize(words[i])
        ELSE LowerWord(words[i])]

\* values that are not strings: the integers 42 and 0
FortyTwo == << T("42", "int") >>
Zero == << T("0", "int") >>
NonStrings == {FortyTwo, Zero}

\* bool(name) is False: None, "", 0
Falsy(name) == name \in {NoName, <<>>, Zero}

\* str(name)
Str(name) ==
    [i \in 1..Len(name) |->
        IF name[i].k = "int" THEN T(name[i].w, "lower") ELSE name[i]]

standardize_university_name(name) ==
    IF Falsy(name) \/ name = NoName THEN <<>>
    ELSE TitleCase(RemoveSuffixes(ApplyReplacements(Str(name))))

\* raw names as they arrive from the sheet and the ranking table
UnivOfToronto       == << T("univ.", "cap"), T("of", "lower"), T("toronto", "cap") >>
UniversityOfToronto == << T("university", "lower"), T("of", "lower"), T("toronto", "lower") >>
TorontoU            == << T("toronto", "cap"), T("u.", "upper") >>
MitUsa              == << T("mit", "upper"), T("(usa)", "lower") >>
OxfordDashUk        == << T("oxford", "cap"), T("-", "lower"), T("uk", "upper") >>
OxfordCommaUk       == << T("oxford", "upper"), T(",", "lower"), T("uk", "upper") >>
ParenOnly           == << T("(x)", "lower") >>

RawFeedbackNames == {UnivOfToronto, MitUsa, ParenOnly, <<>>}
RawQsNames == {UniversityOfToronto, OxfordDashUk, OxfordCommaUk, <<>>}

\* all sequences over S of length lo..hi
SeqsOf(S, lo, hi) == UNION {[1..n -> S] : n \in lo..hi}

Range(f) == {f[x] : x \in DOMAIN f}

(***************************************************************************)
(* Fuzzy matching                                                          *)
(***************************************************************************)
\* <<ratio, partial_ratio, token_sort_ratio, token_set_ratio>> of a pair
ScoreProfiles ==
    { <<90, 70, 78, 78>>,      \* weighted sum exactly 80
      <<79, 80, 81, 80>>,      \* 79.95
      <<100, 90, 95, 95>> }    \* 95.5

\* the measures the library gives without looking at the text: 0 when a side
\* is empty, 100 for identical strings
FixedMeasures(p) ==
    IF p[1] = <<>> \/ p[2] = <<>> THEN <<0, 0, 0, 0>> ELSE <<100, 100, 100, 100>>

\* the tables the library may produce for the pairs in play
SimTables(A, B, profiles) ==
    LET free == {p \in A \X B : p[1] # <<>> /\ p[2] # <<>> /\ p[1] # p[2]}
    IN { [p \in A \X B |-> IF p \in free THEN f[p] ELSE FixedMeasures(p)] :
            f \in [free -> profiles] }

LoweredStd(names) == {LowerName(standardize_university_name(n)) : n \in names}

\* combined_score, in hundredths:
\* ratio * 0.3 + partial * 0.2 + token_sort * 0.25 + token_set * 0.25
combined_score(s, a, b) ==
    LET m == s[<<LowerName(a), LowerName(b)>>]
    IN 30 * m[1] + 20 * m[2] + 25 * m[3] + 25 * m[4]

\* 80, in hundredths
MatchThreshold == 8000

IsBetterMatchLate(combined, best_score) ==
    combined >= best_score /\ combined >= MatchThreshold

\* if combined_score > best_score and combined_score >= 80
IsBetterMatch(combined, best_score) ==
    combined > best_score /\ combined >= MatchThreshold

\* the inner loop over qs_universities: <<best_match, best_score>>
RECURSIVE BestMatchLoop(_, _, _, _, _, _)
BestMatchLoop(s, standardized_feedback, qs, j, best_match, best_score) ==
    IF j > Len(qs) THEN <<best_match, best_score>>
    ELSE LET standardized_qs == standardize_university_name(qs[j])
             combined == combined_score(s, standardized_feedback, standardized_qs)
         IN IF IsBetterMatch(combined, best_score)
            THEN BestMatchLoop(s, standardized_feedback, qs, j + 1,
                               standardized_qs, combined)
            ELSE BestMatchLoop(s, standardized_feedback, qs, j + 1,
                               best_match, best_score)

DictSet(d, key, value) ==
    [k \in DOMAIN d \cup {key} |-> IF k = key THEN value ELSE d[k]]

\* the outer loop over feedback_universities
RECURSIVE MatchLoop(_, _, _, _, _)
MatchLoop(s, fb, qs, i, acc) ==
    IF i > Len(fb) THEN acc
    ELSE IF fb[i] = <<>> \/ fb[i] = NoName
         THEN MatchLoop(s, fb, qs, i + 1, acc)
         ELSE LET standardized_feedback == standardize_university_name(fb[i])
                  best == BestMatchLoop(s, standardized_feedback, qs, 1, NoName, 0)
              IN IF best[1] # NoName /\ best[1] # <<>>
                 THEN MatchLoop(s, fb, qs, i + 1,
                                DictSet(acc, standardized_feedback, best[1]))
                 ELSE MatchLoop(s, fb, qs, i + 1, acc)

find_university_matches(s, fb, qs) == MatchLoop(s, fb, qs, 1, EmptyDict)

MaxFeedbackNames == 2
MaxQsNames == 2

InitMatch ==
    /\ pc = "match"
    /\ feedback_universities \in SeqsOf(RawFeedbackNames, 1, MaxFeedbackNames)
    /\ qs_universities \in SeqsOf(RawQsNames, 0, MaxQsNames)
    /\ sim \in SimTables(LoweredStd(Range(feedback_universities)),
                         LoweredStd(Range(qs_universities)), ScoreProfiles)
    /\ matches = EmptyDict
    /\ IntegratorIdle /\ CleanerIdle /\ ScorerIdle /\ CallIdle
    /\ PipelineIdle
    /\ CacheIdle
    /\ ImporterIdle
    /\ SchedulerIdle
    /\ ScraperIdle

FindUniversityMatches ==
    /\ pc = "match"
    /\ matches' = find_university_matches(sim, feedback_universities, qs_universities)
    /\ pc' = "matched"
    /\ UNCHANGED <<sim, feedback_universities, qs_universities, exceptMatcher>>

NextMatch == FindUniversityMatches

SpecMatch == InitMatch /\ [][NextMatch]_vars

(***************************************************************************)
(* C1: after find_university_matches, every non-empty name a of set_a is   *)
(* mapped, under normalize(a), to normalize(b1) where b1 is the first      *)
(* element of set_b attaining the maximum combined score against a, when   *)
(* that maximum is >= 80; otherwise normalize(a) is not a key.  The result *)
(* has no other keys (so no key has two values).                           *)
(***************************************************************************)
KnownNames ==
    LET raw == RawFeedbackNames \cup RawQsNames
    IN raw \cup {standardize_university_name(n) : n \in raw}

\* standardize_university_name, tabulated over the names in play
Std == [n \in KnownNames |-> standardize_university_name(n)]

ScoreAgainst(a, j) == combined_score(sim, Std[a], Std[qs_universities[j]])

IsMaxAt(a, j) ==
    \A k \in 1..Len(qs_universities) : ScoreAgainst(a, k) <= ScoreAgainst(a, j)

FirstMaxIndex(a) ==
    CHOOSE j \in 1..Len(qs_universities) :
        /\ IsMaxAt(a, j)
        /\ \A k \in 1..(j - 1) : ~IsMaxAt(a, k)

C1_BestMatchAboveThreshold ==
    pc = "matched" =>
        /\ \A i \in 1..Len(feedback_universities) :
             LET a  == feedback_universities[i]
                 na == Std[a]
             IN a # <<>> =>
                  IF \E j \in 1..Len(qs_universities) : ScoreAgainst(a, j) >= MatchThreshold
                  THEN /\ na \in DOMAIN matches
                       /\ matches[na] =
                            Std[qs_universities[FirstMaxIndex(a)]]
                  ELSE na \notin DOMAIN matches
        /\ DOMAIN matches \subseteq
             {Std[a] : a \in Range(feedback_universities)}

\* a tie at exactly 80 between two candidates with different normalised
\* names was resolved for the earlier one
C1_Witness ==
    /\ pc = "matched"
    /\ \E i \in 1..Len(feedback_universities) :
        \E j, k \in 1..Len(qs_universities) :
            LET a == feedback_universities[i]
            IN /\ j < k
               /\ a # <<>>
               /\ ScoreAgainst(a, j) = MatchThreshold
               /\ ScoreAgainst(a, k) = MatchThreshold
               /\ IsMaxAt(a, j)
               /\ FirstMaxIndex(a) = j
               /\ Std[qs_universities[j]]
                    # Std[qs_universities[k]]
               /\ matches[Std[a]]
                    = Std[qs_universities[j]]

(***************************************************************************)
(* DataFrames of the integrator                                            *)
(***************************************************************************)
\* NaN in a text column
NaNText == "NaN"

NameColumns == {"institution_name", "standardized_name", "qs_match_name", "name"}
TextColumns == {"city", "country", "accommodation", "language",
                "language_classes", "accessibility", "website_url"}

\* numeric_columns of process_feedback_data / aggregate_feedback_by_university
NumericColumns == {"overall_quality", "academic_rigor", "openness",
                   "cultural_diversity", "student_life", "campus_safety"}

\* the missing value of a column
NaNOf(c) ==
    IF c \in NameColumns THEN NoName
    ELSE IF c \in TextColumns THEN NaNText
    ELSE Null

\* Series.get(col, default)
Get(row, col, default) == IF col \in DOMAIN row THEN row[col] ELSE default

\* Series.unique().tolist(): the values in order of first appearance
Unique(s) ==
    LET F[i \in 0..Len(s)] ==
            IF i = 0 THEN <<>>
            ELSE IF s[i] \in Range(F[i - 1]) THEN F[i - 1]
                 ELSE Append(F[i - 1], s[i])
    IN F[Len(s)]

Column(frame, c) == [i \in 1..Len(frame.rows) |-> frame.rows[i][c]]

\* frame[c] = vals
SetColumn(frame, c, vals) ==
    [columns |-> frame.columns \cup {c},
     rows |-> [i \in 1..Len(frame.rows) |->
                 [k \in DOMAIN frame.rows[i] \cup {c} |->
                     IF k = c THEN vals[i] ELSE frame.rows[i][k]]]]

\* Series.map(dict): NaN where the key is missing
MapDict(d, key) == IF key \in DOMAIN d THEN d[key] ELSE NoName

\* left.merge(right, left_on, right_on, how='left', suffixes): every left row
\* in order, once per right row with an equal key in right order, or once
\* with the right columns NaN; a column name both frames have gets a suffix
MergeLeft(left, right, left_on, right_on, suffix_l, suffix_r) ==
    LET overlap == left.columns \cap right.columns
        LName(c) == IF c \in overlap THEN c \o suffix_l ELSE c
        RName(c) == IF c \in overlap THEN c \o suffix_r ELSE c
        outCols == {LName(c) : c \in left.columns} \cup {RName(c) : c \in right.columns}
        NaNRow == [c \in right.columns |-> NaNOf(c)]
        Joined(l, r) ==
            [c \in outCols |->
                IF \E lc \in left.columns : LName(lc) = c
                THEN l[CHOOSE lc \in left.columns : LName(lc) = c]
                ELSE r[CHOOSE rc \in right.columns : RName(rc) = c]]
        Hits(l) == SelectSeq(right.rows, LAMBDA r : r[right_on] = l[left_on])
        RowsOf(l) ==
            IF Hits(l) = <<>> THEN << Joined(l, NaNRow) >>
            ELSE [j \in 1..Len(Hits(l)) |-> Joined(l, Hits(l)[j])]
        Acc[i \in 0..Len(left.rows)] ==
            IF i = 0 THEN <<>> ELSE Acc[i - 1] \o RowsOf(left.rows[i])
    IN [columns |-> outCols, rows |-> Acc[Len(left.rows)]]

\* merged_df[col] = merged_df[f'{col}_feedback'].fillna(
\*     merged_df[f'{col}_qs'] if f'{col}_qs' in merged_df.columns else 0)
FillFromFeedback(frame, col) ==
    IF (col \o "_feedback") \in frame.columns
    THEN SetColumn(frame, col,
            [i \in 1..Len(frame.rows) |->
                LET row == frame.rows[i]
                IN IF row[col \o "_feedback"] # Null THEN row[col \o "_feedback"]
                   ELSE IF (col \o "_qs") \in frame.columns
                        THEN row[col \o "_qs"] ELSE 0])
    ELSE frame

\* the columns the fillna loop of merge_data_sources goes over
FilledColumns == <<"academic_rigor", "cultural_diversity">>

\* feedback_df after feedback_df['qs_match_name'] = ...map(matches)
WithMatchNames(s, feedback, qs) ==
    LET feedback_unis == Unique(Column(feedback, "standardized_name"))
        qs_unis == Unique(Column(qs, "standardized_name"))
        found == find_university_matches(s, feedback_unis, qs_unis)
    IN SetColumn(feedback, "qs_match_name",
                 [j \in 1..Len(feedback.rows) |->
                     MapDict(found, feedback.rows[j]["standardized_name"])])

merge_data_sources(s, feedback, qs) ==
    IF feedback.rows = <<>> THEN qs
    ELSE LET joined == MergeLeft(qs, WithMatchNames(s, feedback, qs),
                                 "standardized_name", "qs_match_name",
                                 "_qs", "_feedback")
             Fill[n \in 0..Len(FilledColumns)] ==
                 IF n = 0 THEN joined
                 ELSE FillFromFeedback(Fill[n - 1], FilledColumns[n])
         IN Fill[Len(FilledColumns)]

\* the tuple update_database binds to the INSERT for one row of merged_df;
\* sqlite3 stores None and NaN as NULL
InsertedRow(row) ==
    [name |-> Get(row, "standardized_name", Get(row, "institution_name", <<>>)),
     city |-> Get(row, "city", ""),
     country |-> Get(row, "country", ""),
     qs_rank |-> Get(row, "clean_rank", Null),
     overall_quality |-> Get(row, "overall_quality", Null),
     academic_rigor |-> Get(row, "academic_rigor", Null),
     openness |-> Get(row, "openness", Null),
     cultural_diversity |-> Get(row, "cultural_diversity", Null),
     student_life |-> Get(row, "student_life", Null),
     campus_safety |-> Get(row, "campus_safety", Null),
     accommodation |-> Get(row, "accommodation", NaNText),
     language |-> Get(row, "language", NaNText),
     language_classes |-> Get(row, "language_classes", NaNText),
     accessibility |-> Get(row, "accessibility", NaNText),
     response_count |-> Get(row, "response_count", 0)]

\* DELETE FROM universities, then one INSERT per row of merged_df
update_database(frame) == [i \in 1..Len(frame.rows) |-> InsertedRow(frame.rows[i])]

(***************************************************************************)
(* The two datasets handed to merge_data_sources                           *)
(***************************************************************************)
QsBaseColumns == {"institution_name", "standardized_name", "clean_rank",
                  "country", "city"}

\* a row of load_qs_rankings_data, with the metric columns the table carries
QsRow(inst, metric_cols, i) ==
    [c \in QsBaseColumns \cup metric_cols |->
        CASE c = "institution_name" -> inst
          [] c = "standardized_name" -> standardize_university_name(inst)
          [] c = "clean_rank" -> i
          [] c = "country" -> "Canada"
          [] c = "city" -> "Toronto"
          [] OTHER -> 4]

\* a row of aggregate_feedback_by_university
FeedbackRow(std_name, cols, value, count) ==
    [c \in {"standardized_name", "response_count"} \cup cols |->
        CASE c = "standardized_name" -> std_name
          [] c = "response_count" -> count
          [] c = "city" -> "Scarborough"
          [] OTHER -> value]

\* sequences over S without repetition (groupby leaves one row per name)
DistinctSeqsOf(S, lo, hi) ==
    {q \in SeqsOf(S, lo, hi) : \A i, j \in DOMAIN q : i # j => q[i] # q[j]}

FeedbackStdNames ==
    {standardize_university_name(n) : n \in {UnivOfToronto, MitUsa, TorontoU}}

QsInstitutions == {UniversityOfToronto, OxfordDashUk}

MergeProfiles == { <<79, 80, 81, 80>>, <<100, 90, 95, 95>> }

MaxFeedbackRows == 2
MaxQsRows == 2

InitMerge ==
    /\ pc = "merge"
    /\ \E names \in SeqsOf(QsInstitutions, 1, MaxQsRows) :
       \E metric_cols \in {{}, NumericColumns} :
          qs_df = [columns |-> QsBaseColumns \cup metric_cols,
                   rows |-> [i \in 1..Len(names) |-> QsRow(names[i], metric_cols, i)]]
    /\ \E names \in DistinctSeqsOf(FeedbackStdNames, 0, MaxFeedbackRows) :
       \E city_cols \in {{}, {"city"}} :
       \E values \in [1..Len(names) -> {Null, 7}] :
          feedback_df =
             IF names = <<>> THEN EmptyFrame
             ELSE [columns |-> {"standardized_name", "response_count"}
                                 \cup NumericColumns \cup city_cols,
                   rows |-> [j \in 1..Len(names) |->
                               FeedbackRow(names[j], NumericColumns \cup city_cols,
                                           values[j], j)]]
    /\ sim \in SimTables(
                LoweredStd({r["standardized_name"] : r \in Range(feedback_df.rows)}),
                LoweredStd({r["standardized_name"] : r \in Range(qs_df.rows)}),
                MergeProfiles)
    /\ merged_df = EmptyFrame
    /\ db = <<>>
    /\ MatcherIdle /\ CleanerIdle /\ ScorerIdle /\ CallIdle
    /\ PipelineIdle
    /\ CacheIdle
    /\ ImporterIdle
    /\ SchedulerIdle
    /\ ScraperIdle

\* merged_df = self.merge_data_sources(aggregated_feedback, qs_df); the call
\* also adds the qs_match_name column to the caller's feedback frame
MergeDataSources ==
    /\ pc = "merge"
    /\ merged_df' = merge_data_sources(sim, feedback_df, qs_df)
    /\ feedback_df' = IF feedback_df.rows = <<>> THEN feedback_df
                      ELSE WithMatchNames(sim, feedback_df, qs_df)
    /\ pc' = "merged"
    /\ UNCHANGED <<sim, qs_df, db, exceptIntegrator>>

\* self.update_database(merged_df)
UpdateDatabase ==
    /\ pc = "merged"
    /\ db' = update_database(merged_df)
    /\ pc' = "stored"
    /\ UNCHANGED <<sim, feedback_df, qs_df, merged_df, exceptIntegrator>>

NextMerge == MergeDataSources \/ UpdateDatabase

SpecMerge == InitMerge /\ [][NextMerge]_vars

\* where each row of merged_df comes from: <<row of qs_df, row of feedback_df>>,
\* 0 for a QS row that no feedback row was matched to
FeedbackHits(i) ==
    IF feedback_df.rows = <<>> THEN {}
    ELSE {j \in 1..Len(feedback_df.rows) :
            Get(feedback_df.rows[j], "qs_match_name", NoName)
                = qs_df.rows[i]["standardized_name"]}

SortedSeq(S) ==
    LET F[n \in 0..Cardinality(S)] ==
            IF n = 0 THEN <<>>
            ELSE Append(F[n - 1],
                        CHOOSE x \in S : Cardinality({y \in S : y < x}) = n - 1)
    IN F[Cardinality(S)]

Provenance ==
    LET Of(i) == IF FeedbackHits(i) = {} THEN << <<i, 0>> >>
                 ELSE [n \in 1..Cardinality(FeedbackHits(i)) |->
                          <<i, SortedSeq(FeedbackHits(i))[n]>>]
        Acc[i \in 0..Len(qs_df.rows)] ==
            IF i = 0 THEN <<>> ELSE Acc[i - 1] \o Of(i)
    IN Acc[Len(qs_df.rows)]

\* the model's rows of the table line up with their provenance
ProvenanceAligned == pc = "stored" => Len(db) = Len(Provenance)

SubjectiveMetrics == {"academic_rigor", "cultural_diversity", "student_life",
                      "campus_safety", "openness"}

(***************************************************************************)
(* C3: the number of rows returned by merge_data_sources equals the number *)
(* of rows of the QS dataset, also when several feedback names match the   *)
(* same QS name.  The code's left join repeats a QS row once per feedback  *)
(* row matched to it, so this is violated.                                 *)
(***************************************************************************)
C3_RowCountIsPrimaryCount ==
    pc \in {"merged", "stored"} => Len(merged_df.rows) = Len(qs_df.rows)

C5_IdentityFromPrimary ==
    pc = "stored" =>
        \A k \in DOMAIN db \cap DOMAIN Provenance :
            LET primary == qs_df.rows[Provenance[k][1]]
            IN /\ db[k].name \in {primary["standardized_name"],
                                  primary["institution_name"]}
               /\ db[k].city = primary["city"]
               /\ db[k].country = primary["country"]
               /\ db[k].qs_rank = primary["clean_rank"]

(***************************************************************************)
(* C6: every QS record without a matched feedback record is stored with    *)
(* its own fields unchanged and response_count 0, with an empty and with a *)
(* non-empty feedback dataset.  With a non-empty feedback dataset the join *)
(* leaves response_count NaN, stored as NULL, so this is violated.         *)
(***************************************************************************)
C6_UnmatchedPassThrough ==
    pc = "stored" =>
        \A k \in DOMAIN db \cap DOMAIN Provenance :
            LET primary == qs_df.rows[Provenance[k][1]]
            IN Provenance[k][2] = 0 =>
                 /\ db[k].name \in {primary["standardized_name"],
                                    primary["institution_name"]}
                 /\ db[k].city = primary["city"]
                 /\ db[k].country = primary["country"]
                 /\ db[k].qs_rank = primary["clean_rank"]
                 /\ \A m \in NumericColumns : db[k][m] = Get(primary, m, Null)
                 /\ db[k].response_count = 0

(***************************************************************************)
(* Duplicate resolution of the cleaner                                     *)
(***************************************************************************)
\* len() of a name: its words and the single spaces between them
RECURSIVE CharLen(_)
CharLen(name) ==
    IF name = <<>> THEN 0
    ELSE Len(name[1].w) + (IF Len(name) > 1 THEN 1 ELSE 0) + CharLen(Tail(name))

\* len() of a value of a text field
TextLen(field, value) == IF field = "name" THEN CharLen(value) ELSE Len(value)

\* pd.isna of a value of a column
IsNA(field, value) == value = NaNOf(field)

\* a metric x is held as the integer ScoreUnit * x, so that the mean of up to
\* six values stays an integer
ScoreUnit == 60

text_fields == {"name", "city", "country", "website_url"}

numeric_fields == {"academic_rigor", "student_life", "cultural_diversity",
                   "campus_safety", "research_quality", "overall_quality"}

ranking_fields == {"qs_rank", "the_rank", "arwu_rank"}

score_fields == {"qs_score", "the_score"}

\* rows[field].dropna()
NonNull(rows, field) ==
    SelectSeq([i \in 1..Len(rows) |-> rows[i][field]], LAMBDA v : ~IsNA(field, v))

\* max(non_null_values, key=len): the first of the longest values
Longest(values, field) ==
    values[CHOOSE i \in 1..Len(values) :
              /\ \A j \in 1..Len(values) :
                    TextLen(field, values[j]) <= TextLen(field, values[i])
              /\ \A j \in 1..(i - 1) :
                    TextLen(field, values[j]) < TextLen(field, values[i])]

RECURSIVE SumSeq(_)
SumSeq(values) == IF values = <<>> THEN 0 ELSE values[1] + SumSeq(Tail(values))

\* non_null_values.mean()
Mean(values) == SumSeq(values) \div Len(values)

\* non_null_values.min()
Min(values) == CHOOSE v \in Range(values) : \A w \in Range(values) : v <= w

\* the value _merge_duplicate_rows leaves in one field of the merged row
MergedField(rows, field) ==
    LET non_null_values == NonNull(rows, field)
    IN IF non_null_values = <<>> THEN rows[1][field]
       ELSE IF field \in text_fields THEN Longest(non_null_values, field)
       ELSE IF field \in numeric_fields \cup score_fields THEN Mean(non_null_values)
       ELSE IF field \in ranking_fields THEN Min(non_null_values)
       ELSE rows[1][field]

\* merged = rows.iloc[0].copy(), then field by field
merge_duplicate_rows(rows) ==
    [field \in DOMAIN rows[1] |-> MergedField(rows, field)]

\* fuzz.ratio(name.lower(), other_row['name'].lower())
NameRatio(r, row, other_row) ==
    r[<<LowerName(row["name"]), LowerName(other_row["name"])>>]

DuplicateThreshold == 85

IsDuplicateOfOrEqual(r, row, other_row) ==
    /\ other_row["country"] = row["country"]
    /\ NameRatio(r, row, other_row) >= DuplicateThreshold

\* other_row['country'] == country and fuzz.ratio(...) > 85
IsDuplicateOf(r, row, other_row) ==
    /\ other_row["country"] = row["country"]
    /\ NameRatio(r, row, other_row) > DuplicateThreshold

\* the first loop of _handle_duplicates: the duplicate groups
RECURSIVE GroupLoop(_, _, _, _, _)
GroupLoop(rows, r, idx, processed, groups) ==
    IF idx > Len(rows) THEN groups
    ELSE IF idx \in processed THEN GroupLoop(rows, r, idx + 1, processed, groups)
    ELSE LET similar_indices ==
                 SortedSeq({other_idx \in 1..Len(rows) :
                              /\ other_idx \notin processed
                              /\ other_idx # idx
                              /\ IsDuplicateOf(r, rows[idx], rows[other_idx])})
         IN IF similar_indices # <<>>
            THEN GroupLoop(rows, r, idx + 1,
                           processed \cup {idx} \cup Range(similar_indices),
                           Append(groups, <<idx>> \o similar_indices))
            ELSE GroupLoop(rows, r, idx + 1, processed \cup {idx}, groups)

find_duplicate_groups(rows, r) == GroupLoop(rows, r, 1, {}, <<>>)

\* the second loop of _handle_duplicates and reset_index: the first row of a
\* group takes the merged values, the other rows of the group are dropped
merge_groups(rows, groups) ==
    LET dropped == UNION {Range(Tail(groups[g])) : g \in DOMAIN groups}
        kept == SortedSeq((1..Len(rows)) \ dropped)
        Updated(i) ==
            IF \E g \in DOMAIN groups : groups[g][1] = i
            THEN LET group == groups[CHOOSE g \in DOMAIN groups : groups[g][1] = i]
                 IN merge_duplicate_rows([k \in 1..Len(group) |-> rows[group[k]]])
            ELSE rows[i]
    IN [k \in 1..Len(kept) |-> Updated(kept[k])]

handle_duplicates(rows, r) == merge_groups(rows, find_duplicate_groups(rows, r))

(***************************************************************************)
(* The rows handed to _handle_duplicates                                   *)
(***************************************************************************)
TuMunich == << T("tu", "cap"), T("munich", "cap") >>
TuMunchen == << T("tu", "cap"), T("munchen", "cap") >>
TechnologyUniversityMunich ==
    << T("technology", "cap"), T("university", "cap"), T("munich", "cap") >>

CleanedNames == {TuMunich, TuMunchen, TechnologyUniversityMunich}
CleanedCountries == {"Germany", ""}

\* the other columns of a row
Payloads ==
    << [city |-> "Munich", academic_rigor |-> 6 * ScoreUnit, qs_rank |-> 9,
        the_rank |-> Null, arwu_rank |-> 30, us_news_rank |-> Null,
        response_count |-> 2],
       [city |-> "", academic_rigor |-> Null, qs_rank |-> 5,
        the_rank |-> 12, arwu_rank |-> Null, us_news_rank |-> 3,
        response_count |-> 1],
       [city |-> "Muenchen", academic_rigor |-> 8 * ScoreUnit, qs_rank |-> Null,
        the_rank |-> 7, arwu_rank |-> 20, us_news_rank |-> 7,
        response_count |-> 3] >>

CleanedRow(name, country, payload) ==
    [c \in {"name", "country"} \cup DOMAIN payload |->
        IF c = "name" THEN name
        ELSE IF c = "country" THEN country
        ELSE payload[c]]

\* fuzz.ratio over the names in play: 100 on identical strings, symmetric,
\* and on either side of the threshold otherwise
RatioTables(names) ==
    LET pairs == {{a, b} : a, b \in names} \ {{a} : a \in names}
    IN { [p \in names \X names |->
            IF p[1] = p[2] THEN 100
            ELSE IF {p[1], p[2]} \in close THEN DuplicateThreshold + 1
            ELSE DuplicateThreshold] : close \in SUBSET pairs }

MaxRows == 3

InitDedup ==
    /\ pc = "dedup"
    /\ \E n \in 1..MaxRows :
       \E names \in [1..n -> CleanedNames] :
       \E countries \in [1..n -> CleanedCountries] :
       \E shift \in 0..(Len(Payloads) - 1) :
          df = [i \in 1..n |->
                  CleanedRow(names[i], countries[i],
                             Payloads[((i + shift) % Len(Payloads)) + 1])]
    /\ ratio \in RatioTables({LowerName(df[i]["name"]) : i \in DOMAIN df})
    /\ duplicates = <<>>
    /\ deduplicated = <<>>
    /\ sim = EmptyDict
    /\ MatcherIdle /\ IntegratorIdle /\ ScorerIdle /\ CallIdle
    /\ PipelineIdle
    /\ CacheIdle
    /\ ImporterIdle
    /\ SchedulerIdle
    /\ ScraperIdle

\* cleaned_df = self._handle_duplicates(cleaned_df)
HandleDuplicates ==
    /\ pc = "dedup"
    /\ duplicates' = find_duplicate_groups(df, ratio)
    /\ deduplicated' = handle_duplicates(df, ratio)
    /\ pc' = "deduped"
    /\ UNCHANGED <<df, ratio, exceptCleaner>>

NextDedup == HandleDuplicates

SpecDedup == InitDedup /\ [][NextDedup]_vars

\* the clusters of the result: the duplicate groups and, each on its own,
\* the rows in none of them
LeaderOf(i) ==
    IF \E g \in DOMAIN duplicates : i \in Range(duplicates[g])
    THEN duplicates[CHOOSE g \in DOMAIN duplicates : i \in Range(duplicates[g])][1]
    ELSE i

Leaders == {LeaderOf(i) : i \in DOMAIN df}

Members(l) == {i \in DOMAIN df : LeaderOf(i) = l}

ClusterRows(l) == [k \in 1..Cardinality(Members(l)) |-> df[SortedSeq(Members(l))[k]]]

SimilarRows(l, m) ==
    /\ df[m]["country"] = df[l]["country"]
    /\ ratio[<<LowerName(df[l]["name"]), LowerName(df[m]["name"])>>] > 85

(***************************************************************************)
(* C2: _handle_duplicates clusters greedily in input order.  Every record  *)
(* is in exactly one cluster; a cluster is its first member together with  *)
(* exactly the later records, not grouped under an earlier first member,   *)
(* that have its country and a name ratio > 85 to it; the output has one   *)
(* record per cluster, in the input order of the first members.            *)
(***************************************************************************)
C2_GreedyClustering ==
    pc = "deduped" =>
        /\ \A g, h \in DOMAIN duplicates :
              g # h => Range(duplicates[g]) \cap Range(duplicates[h]) = {}
        /\ \A g \in DOMAIN duplicates :
              /\ Cardinality(Range(duplicates[g])) = Len(duplicates[g])
              /\ Range(duplicates[g]) \subseteq DOMAIN df
        /\ \A l \in Leaders :
              \A m \in DOMAIN df :
                 m # l =>
                    (LeaderOf(m) = l <=>
                        (m > l /\ SimilarRows(l, m) /\ ~(LeaderOf(m) < l)))
        /\ Len(deduplicated) = Cardinality(Leaders)
        /\ \A k \in DOMAIN deduplicated :
              LET l == SortedSeq(Leaders)[k]
              IN deduplicated[k] =
                    IF Members(l) = {l} THEN df[l]
                    ELSE merge_duplicate_rows(ClusterRows(l))

\* a cluster of two took in a record, and a later record of the same country
\* that is similar to the second member but at ratio 85 to the first stayed out
C2_Witness ==
    /\ pc = "deduped"
    /\ \E g \in DOMAIN duplicates :
       \E m \in DOMAIN df :
          LET l == duplicates[g][1]
              second == duplicates[g][2]
          IN /\ m > second
             /\ LeaderOf(m) = m
             /\ df[m]["country"] = df[l]["country"]
             /\ ratio[<<LowerName(df[l]["name"]), LowerName(df[m]["name"])>>] = 85
             /\ ratio[<<LowerName(df[second]["name"]), LowerName(df[m]["name"])>>] > 85
             /\ Len(deduplicated) = Len(df) - 1

\* the record the result holds for cluster l
OutputOf(l) ==
    deduplicated[CHOOSE k \in DOMAIN deduplicated : SortedSeq(Leaders)[k] = l]

RankFields == {"qs_rank", "the_rank", "arwu_rank", "us_news_rank"}

(***************************************************************************)
(* C7: for every duplicate cluster and every field, if some member has a   *)
(* non-null value for the field then so has the merged record.  Fields     *)
(* outside the four lists of _merge_duplicate_rows (us_news_rank,          *)
(* response_count, ...) keep the first member's value, null included, so   *)
(* this is violated.                                                       *)
(***************************************************************************)
C7_MergeKeepsNonNull ==
    pc = "deduped" =>
        \A g \in DOMAIN duplicates :
            LET l == duplicates[g][1]
            IN \A field \in DOMAIN df[l] :
                  (\E m \in Members(l) : ~IsNA(field, df[m][field]))
                      => ~IsNA(field, OutputOf(l)[field])

(***************************************************************************)
(* C8: for every duplicate cluster and each of qs_rank, the_rank,          *)
(* arwu_rank and us_news_rank, the merged value is the minimum of the      *)
(* members' non-null values, null only if all are null.  us_news_rank is   *)
(* not among the code's ranking_fields, so this is violated.               *)
(***************************************************************************)
C8_RankIsMinimum ==
    pc = "deduped" =>
        \A g \in DOMAIN duplicates :
            LET l == duplicates[g][1]
            IN \A field \in RankFields \cap DOMAIN df[l] :
                  LET present == {df[m][field] : m \in Members(l)} \ {Null}
                  IN OutputOf(l)[field] =
                        IF present = {} THEN Null
                        ELSE CHOOSE v \in present : \A w \in present : v <= w

(***************************************************************************)
(* C9: for every duplicate cluster the merged response_count is the sum of *)
(* the members' response_count values.  The code keeps the first member's  *)
(* value, so this is violated.                                             *)
(***************************************************************************)
C9_ResponseCountIsSum ==
    pc = "deduped" =>
        \A g \in DOMAIN duplicates :
            LET l == duplicates[g][1]
            IN OutputOf(l)["response_count"] =
                  SumSeq([k \in 1..Len(ClusterRows(l)) |->
                             ClusterRows(l)[k]["response_count"]])

(***************************************************************************)
(* The recommendation score                                                *)
(***************************************************************************)
\* Python's floats are held as exact fractions <<numerator, denominator>>
\* in lowest terms, with a positive denominator
RECURSIVE Gcd(_, _)
Gcd(a, b) == IF b = 0 THEN a ELSE Gcd(b, a % b)

Abs(n) == IF n < 0 THEN 0 - n ELSE n

Frac(n, d) ==
    LET g == IF n = 0 THEN d ELSE Gcd(Abs(n), d)
    IN <<n \div g, d \div g>>

FracAdd(a, b) == Frac(a[1] * b[2] + b[1] * a[2], a[2] * b[2])

FracMul(a, b) == Frac(a[1] * b[1], a[2] * b[2])

\* a / b for b > 0
FracDiv(a, b) == Frac(a[1] * b[2], a[2] * b[1])

FracLeq(a, b) == a[1] * b[2] <= b[1] * a[2]

FracMin(a, b) == IF FracLeq(b, a) /\ ~FracLeq(a, b) THEN b ELSE a

FracMax(a, b) == IF FracLeq(a, b) /\ ~FracLeq(b, a) THEN b ELSE a

FracZero == Frac(0, 1)

\* None of an optional string
None == "None"

AcademicPercent == 25
ResearchPercent == 15
DiversityPercent == 15
LifePercent == 15
SafetyPercent == 10
CostPercent == 10
RankingPercent == 5
location_weight == 5
language_weight == 5
ClimatePoints == 5
AccommodationPoints == 5

\* what one criterion adds to score and to max_possible_score
Adds(to_score, to_max) == [score |-> to_score, max |-> to_max]

\* profile.<x>_importance / 5.0 * <percent>
Weight(importance, percent) == Frac(importance * percent, 5)

\* a metric criterion that pays the whole weight whatever the metric
MetricCriterionFull(metric, importance, percent) ==
    IF metric # Null
    THEN Adds(Weight(importance, percent), Weight(importance, percent))
    ELSE Adds(FracZero, FracZero)

\* academic fit, research quality, cultural diversity, student life, safety
MetricCriterion(metric, importance, percent) ==
    IF metric # Null
    THEN LET weight == Weight(importance, percent)
         IN Adds(FracMul(Frac(metric, 10), weight), weight)
    ELSE Adds(FracZero, FracZero)

\* a cost criterion without partial credit
CostCriterionNoPartial(u, p) ==
    IF u.tuition_international # Null
       /\ p.max_tuition_budget # Null /\ p.max_tuition_budget # 0
    THEN LET cost_weight == Weight(p.cost_importance, CostPercent)
         IN IF u.tuition_international <= p.max_tuition_budget
            THEN Adds(cost_weight, cost_weight)
            ELSE Adds(FracZero, cost_weight)
    ELSE Adds(FracZero, FracZero)

CostCriterion(u, p) ==
    IF u.tuition_international # Null
       /\ p.max_tuition_budget # Null /\ p.max_tuition_budget # 0
    THEN LET cost_weight == Weight(p.cost_importance, CostPercent)
         IN IF u.tuition_international <= p.max_tuition_budget
            THEN Adds(cost_weight, cost_weight)
            ELSE Adds(FracMul(cost_weight,
                              FracMax(FracZero,
                                      Frac(p.max_tuition_budget,
                                           u.tuition_international))),
                      cost_weight)
    ELSE Adds(FracZero, FracZero)

RankingCriterion(u, p) ==
    IF u.qs_rank # Null
    THEN LET ranking_weight == Weight(p.ranking_importance, RankingPercent)
         IN IF /\ p.min_acceptable_rank # Null /\ p.min_acceptable_rank # 0
               /\ u.qs_rank <= p.min_acceptable_rank
            THEN Adds(ranking_weight, ranking_weight)
            ELSE Adds(FracZero, ranking_weight)
    ELSE Adds(FracZero, FracZero)

LocationCriterion(u, p) ==
    IF p.preferred_countries # <<>> /\ u.country \in Range(p.preferred_countries)
    THEN Adds(Frac(location_weight, 1), Frac(location_weight, 1))
    ELSE Adds(FracZero, Frac(location_weight, 1))

LanguageCriterion(u, p) ==
    IF /\ p.language_requirements # <<>>
       /\ u.languages_of_instruction # <<>>
       /\ \E lang \in Range(p.language_requirements) :
             lang \in Range(u.languages_of_instruction)
    THEN Adds(Frac(language_weight, 1), Frac(language_weight, 1))
    ELSE Adds(FracZero, Frac(language_weight, 1))

ClimateCriterionScoreOnly(u, p) ==
    IF p.preferred_climate # None /\ u.climate_type = p.preferred_climate
    THEN Adds(Frac(ClimatePoints, 1), FracZero)
    ELSE Adds(FracZero, FracZero)

ClimateCriterion(u, p) ==
    IF p.preferred_climate # None /\ u.climate_type = p.preferred_climate
    THEN Adds(Frac(ClimatePoints, 1), Frac(ClimatePoints, 1))
    ELSE Adds(FracZero, FracZero)

AccommodationCriterion(u, p) ==
    IF p.accommodation_required = TRUE /\ u.accommodation_available = TRUE
    THEN Adds(Frac(AccommodationPoints, 1), Frac(AccommodationPoints, 1))
    ELSE Adds(FracZero, FracZero)

\* the criteria in the order the code evaluates them
Criteria(u, p) ==
    << MetricCriterion(u.academic_rigor, p.academic_importance, AcademicPercent),
       MetricCriterion(u.research_quality, p.research_importance, ResearchPercent),
       MetricCriterion(u.cultural_diversity, p.cultural_diversity_importance,
                       DiversityPercent),
       MetricCriterion(u.student_life, p.student_life_importance, LifePercent),
       MetricCriterion(u.campus_safety, p.campus_safety_importance, SafetyPercent),
       CostCriterion(u, p),
       RankingCriterion(u, p),
       LocationCriterion(u, p),
       LanguageCriterion(u, p),
       ClimateCriterion(u, p),
       AccommodationCriterion(u, p) >>

RECURSIVE FracSum(_)
FracSum(fs) == IF fs = <<>> THEN FracZero ELSE FracAdd(fs[1], FracSum(Tail(fs)))

\* score when every criterion has been evaluated
score(u, p) ==
    LET c == Criteria(u, p) IN FracSum([i \in DOMAIN c |-> c[i].score])

\* max_possible_score when every criterion has been evaluated
max_possible_score(u, p) ==
    LET c == Criteria(u, p) IN FracSum([i \in DOMAIN c |-> c[i].max])

\* (score / max_possible_score) * 100, or 0
final_score(u, p) ==
    IF max_possible_score(u, p)[1] > 0
    THEN FracMul(FracDiv(score(u, p), max_possible_score(u, p)), Frac(100, 1))
    ELSE FracZero

\* the score of the returned tuple: min(final_score, 100)
calculate_match_score(u, p) == FracMin(final_score(u, p), Frac(100, 1))

(***************************************************************************)
(* The records and profiles scored                                         *)
(***************************************************************************)
\* academic_rigor, research_quality, cultural_diversity, student_life,
\* campus_safety
MetricVectors ==
    { <<Null, Null, Null, Null, Null>>,
      <<0, 0, 0, 0, 0>>,
      <<10, 10, 10, 10, 10>>,
      <<7, Null, 5, 8, 10>> }

\* academic, research, cultural_diversity, student_life, campus_safety, cost,
\* ranking importance
ImportanceVectors ==
    { <<1, 1, 1, 1, 1, 1, 1>>,
      <<3, 3, 3, 3, 4, 3, 3>>,
      <<5, 1, 2, 4, 3, 5, 1>> }

Universities ==
    { [academic_rigor |-> m[1], research_quality |-> m[2],
       cultural_diversity |-> m[3], student_life |-> m[4],
       campus_safety |-> m[5], tuition_international |-> tuition,
       qs_rank |-> rank, country |-> "Germany",
       languages_of_instruction |-> langs, climate_type |-> climate,
       accommodation_available |-> accommodation] :
         m \in MetricVectors,
         tuition \in {Null, 0, 30000},
         rank \in {Null, 50, 600},
         langs \in {<<>>, <<"German", "English">>},
         climate \in {None, "temperate"},
         accommodation \in BOOLEAN }

Profiles ==
    { [academic_importance |-> w[1], research_importance |-> w[2],
       cultural_diversity_importance |-> w[3], student_life_importance |-> w[4],
       campus_safety_importance |-> w[5], cost_importance |-> w[6],
       ranking_importance |-> w[7], max_tuition_budget |-> budget,
       preferred_countries |-> countries, preferred_climate |-> climate,
       language_requirements |-> langs, accommodation_required |-> accommodation,
       min_acceptable_rank |-> rank] :
         w \in ImportanceVectors,
         budget \in {Null, 0, 20000},
         countries \in {<<>>, <<"France", "Germany">>},
         climate \in {None, "temperate"},
         langs \in {<<>>, <<"English">>},
         accommodation \in BOOLEAN,
         rank \in {Null, 100} }

InitScore ==
    /\ pc = "score"
    /\ university \in Universities
    /\ profile \in Profiles
    /\ match_score = FracZero
    /\ sim = EmptyDict
    /\ MatcherIdle /\ IntegratorIdle /\ CleanerIdle /\ CallIdle
    /\ PipelineIdle
    /\ CacheIdle
    /\ ImporterIdle
    /\ SchedulerIdle
    /\ ScraperIdle

\* score, reasons = engine.calculate_match_score(university, profile)
CalculateMatchScore ==
    /\ pc = "score"
    /\ match_score' = calculate_match_score(university, profile)
    /\ pc' = "scored"
    /\ UNCHANGED <<university, profile, exceptScorer>>

NextScore == CalculateMatchScore

SpecScore == InitScore /\ [][NextScore]_vars

(***************************************************************************)
(* C10: for metric scores in [0,10], non-negative tuition, importances in  *)
(* 1..5 and a non-negative budget, the returned score s satisfies          *)
(* 0 <= s <= 100 and is 100 * numerator / denominator when the denominator *)
(* is positive and 0 otherwise, numerator and denominator being the sums   *)
(* of what the criteria add to score and to max_possible_score.            *)
(***************************************************************************)
C10_ScoreInRange ==
    pc = "scored" =>
        LET numerator == score(university, profile)
            denominator == max_possible_score(university, profile)
        IN /\ FracLeq(FracZero, match_score)
           /\ FracLeq(match_score, Frac(100, 1))
           /\ IF denominator[1] > 0
              THEN match_score =
                      Frac(100 * numerator[1] * denominator[2],
                           numerator[2] * denominator[1])
              ELSE match_score = FracZero

\* every metric is present, the tuition is above the budget (partial cost
\* credit), climate and accommodation count, and the score is strictly
\* between 0 and 100
C10_Witness ==
    /\ pc = "scored"
    /\ \A f \in {"academic_rigor", "research_quality", "cultural_diversity",
                 "student_life", "campus_safety"} : university[f] = 10
    /\ profile.max_tuition_budget > 0
    /\ university.tuition_international > profile.max_tuition_budget
    /\ profile.preferred_climate = university.climate_type
    /\ profile.preferred_climate # None
    /\ profile.accommodation_required /\ university.accommodation_available
    /\ FracLeq(Frac(90, 1), match_score)
    /\ match_score # Frac(100, 1)

\* the positions of the criteria in Criteria
CostIndex == 6
RankingIndex == 7
LocationIndex == 8
LanguageIndex == 9
ClimateIndex == 10
AccommodationIndex == 11

\* the profile states the preference of a binary criterion
HasPreference(i, u, p) ==
    CASE i = CostIndex -> /\ u.tuition_international # Null
                          /\ p.max_tuition_budget # Null
                          /\ p.max_tuition_budget # 0
      [] i = LocationIndex -> p.preferred_countries # <<>>
      [] i = LanguageIndex -> p.language_requirements # <<>>
      [] i = ClimateIndex -> p.preferred_climate # None
      [] i = AccommodationIndex -> p.accommodation_required = TRUE

\* the record satisfies the preference of a binary criterion
Satisfies(i, u, p) ==
    CASE i = CostIndex -> u.tuition_international <= p.max_tuition_budget
      [] i = LocationIndex -> u.country \in Range(p.preferred_countries)
      [] i = LanguageIndex -> \E lang \in Range(p.language_requirements) :
                                 lang \in Range(u.languages_of_instruction)
      [] i = ClimateIndex -> u.climate_type = p.preferred_climate
      [] i = AccommodationIndex -> u.accommodation_available = TRUE

\* the full weight of a binary criterion
FullWeight(i, p) ==
    CASE i = CostIndex -> Weight(p.cost_importance, CostPercent)
      [] i = LocationIndex -> Frac(location_weight, 1)
      [] i = LanguageIndex -> Frac(language_weight, 1)
      [] i = ClimateIndex -> Frac(ClimatePoints, 1)
      [] i = AccommodationIndex -> Frac(AccommodationPoints, 1)

BinaryCriteria ==
    {CostIndex, LocationIndex, LanguageIndex, ClimateIndex, AccommodationIndex}

(***************************************************************************)
(* C11: each of the criteria location, language, climate, accommodation    *)
(* and cost adds its weight to max_possible_score exactly when the profile *)
(* states the preference (and, for cost, the record has a tuition),        *)
(* whether or not the record satisfies it, adds its full weight to score   *)
(* only when the record satisfies it, and adds to neither when the         *)
(* preference is not stated.  The code adds location_weight and            *)
(* language_weight to max_possible_score unconditionally, and the climate  *)
(* and accommodation points only when the record satisfies the preference, *)
(* so this is violated.                                                    *)
(***************************************************************************)
C11_BinaryCriteriaDenominator ==
    pc = "scored" =>
        \A i \in BinaryCriteria :
            LET c == Criteria(university, profile)[i]
                stated == HasPreference(i, university, profile)
            IN /\ c.max = IF stated THEN FullWeight(i, profile) ELSE FracZero
               /\ c.score = FullWeight(i, profile)
                     => stated /\ Satisfies(i, university, profile)
               /\ ~stated => c.score = FracZero

MetricFields ==
    {"academic_rigor", "research_quality", "cultural_diversity", "student_life",
     "campus_safety"}

ImportanceFields ==
    {"academic_importance", "research_importance",
     "cultural_diversity_importance", "student_life_importance",
     "campus_safety_importance", "cost_importance", "ranking_importance"}

\* all importances at the minimum and all metric scores 0
ZeroBoundary ==
    /\ \A f \in ImportanceFields : profile[f] = 1
    /\ \A f \in MetricFields : university[f] = 0

\* neither cost, rank, location, language, climate nor accommodation adds
\* anything to score
NothingElseScores ==
    \A i \in {RankingIndex} \cup BinaryCriteria :
        Criteria(university, profile)[i].score = FracZero

(***************************************************************************)
(* C12 as stated: with all importances 1 and all metric scores 0 the       *)
(* returned score is exactly 0.  A matched country, language, climate or   *)
(* accommodation, a tuition with a positive budget or a rank within the    *)
(* acceptable rank still adds to score, so this is violated.               *)
(***************************************************************************)
C12_ZeroBoundary ==
    pc = "scored" /\ ZeroBoundary => match_score = FracZero

(***************************************************************************)
(* C12 amended: with all importances 1, all metric scores 0 and no credit  *)
(* from cost, rank, location, language, climate or accommodation, the      *)
(* returned score is exactly 0.                                            *)
(***************************************************************************)
C12_ZeroBoundaryAmended ==
    pc = "scored" /\ ZeroBoundary /\ NothingElseScores => match_score = FracZero

\* the boundary case with a rank outside the acceptable rank and stated but
\* unmet preferences
C12_Witness ==
    /\ pc = "scored"
    /\ ZeroBoundary
    /\ NothingElseScores
    /\ university.qs_rank # Null
    /\ profile.min_acceptable_rank # Null
    /\ profile.preferred_climate # None
    /\ profile.language_requirements # <<>>
    /\ match_score = FracZero

\* the division budget / tuition is evaluated
RatioEvaluated(u, p) ==
    /\ u.tuition_international # Null
    /\ p.max_tuition_budget # Null /\ p.max_tuition_budget # 0
    /\ ~(u.tuition_international <= p.max_tuition_budget)

(***************************************************************************)
(* C13: when the tuition exceeds the budget, the cost criterion adds       *)
(* cost_weight * budget / tuition to score, which is never negative and    *)
(* never more than cost_weight; budget / tuition is only evaluated with a  *)
(* strictly positive tuition.                                              *)
(***************************************************************************)
C13_PartialCostCredit ==
    pc = "scored" =>
        LET u == university
            p == profile
            added == Criteria(u, p)[CostIndex].score
            cost_weight == Weight(p.cost_importance, CostPercent)
        IN /\ (/\ u.tuition_international # Null
               /\ p.max_tuition_budget # Null
               /\ u.tuition_international > p.max_tuition_budget)
              => /\ added[1] * (5 * u.tuition_international)
                       = (p.cost_importance * CostPercent * p.max_tuition_budget)
                            * added[2]
                 /\ FracLeq(FracZero, added)
                 /\ FracLeq(added, cost_weight)
           /\ RatioEvaluated(u, p) => u.tuition_international > 0

\* a tuition above a positive budget earned a partial credit strictly
\* between 0 and cost_weight
C13_Witness ==
    /\ pc = "scored"
    /\ RatioEvaluated(university, profile)
    /\ Criteria(university, profile)[CostIndex].score # FracZero
    /\ Criteria(university, profile)[CostIndex].score
          # Weight(profile.cost_importance, CostPercent)

(***************************************************************************)
(* Name normalisation of the cleaner                                       *)
(***************************************************************************)
\* re.sub of the pattern \bU\b\.?(?=\s): a word "U" or "U." with a space
\* after it
ReplaceWordBeforeSpace(name, words, lit) ==
    [i \in 1..Len(name) |->
        IF name[i].w \in words /\ i < Len(name) THEN lit ELSE name[i]]

\* the abbreviations dict of clean_university_name, in dict order
ExpandAbbreviations(name) ==
    LET a1  == ReplaceWord(name, {"univ", "univ."}, T("university", "cap"))
        a2  == ReplaceWordBeforeSpace(a1, {"u", "u."}, T("university", "cap"))
        a3  == ReplaceWord(a2, {"inst", "inst."}, T("institute", "cap"))
        a4  == ReplaceWord(a3, {"tech", "tech."}, T("technology", "cap"))
        a5  == ReplaceWord(a4, {"coll", "coll."}, T("college", "cap"))
        a6  == ReplaceWord(a5, {"sci", "sci."}, T("science", "cap"))
        a7  == ReplaceWord(a6, {"eng", "eng."}, T("engineering", "cap"))
        a8  == ReplaceWord(a7, {"med", "med."}, T("medical", "cap"))
        a9  == ReplaceWord(a8, {"bus", "bus."}, T("business", "cap"))
        a10 == ReplaceWord(a9, {"intl", "int'l", "intl.", "int'l."},
                           T("international", "cap"))
        a11 == ReplaceWord(a10, {"natl", "nat'l", "natl.", "nat'l."},
                           T("national", "cap"))
        a12 == ReplaceWord(a11, {"st."}, T("saint", "cap"))
        a13 == ReplaceWord(a12, {"mt."}, T("mount", "cap"))
    IN a13

\* [A-Z]{2,}: a word of two or more upper-case letters and nothing else
IsCode(t) == t.k = "upper" /\ t.w \in {"uk", "usa", "mit", "ma", "bc"}

\* r'\s*-\s*[A-Z]{2,}$' and r'\s*,\s*[A-Z]{2,}$'
StripTrailingCode(name, sep) ==
    IF Len(name) >= 2 /\ name[Len(name) - 1].w = sep /\ IsCode(name[Len(name)])
    THEN SubSeq(name, 1, Len(name) - 2)
    ELSE name

\* the noise_patterns of clean_university_name, in list order
RemoveNoise(name) ==
    StripTrailingCode(StripTrailingCode(StripTrailingParen(name), "-"), ",")

\* re.sub(r'^The\s+', '', name)
StripThe(name) ==
    IF Len(name) >= 2 /\ name[1] = T("the", "cap") THEN Tail(name) ELSE name

lowercase_words ==
    {"of", "the", "and", "in", "at", "by", "for", "to", "into", "with", "from",
     "up", "on", "off", "over", "under"}

title_case_university_name(name) ==
    [i \in 1..Len(name) |->
        IF i > 1 /\ name[i].w \in lowercase_words
        THEN LowerWord(name[i])
        ELSE Capitalize(name[i])]

clean_university_name(name) ==
    IF name = NoName \/ name \in NonStrings THEN <<>>
    ELSE title_case_university_name(StripThe(RemoveNoise(ExpandAbbreviations(name))))

(***************************************************************************)
(* Calls of the name normalisers on raw values                             *)
(***************************************************************************)
NameTokens ==
    { T("the", "cap"), T("the", "lower"), T("univ.", "cap"), T("u", "upper"),
      T("of", "lower"), T("toronto", "cap"), T("(a)", "upper"),
      T("-", "lower"), T(",", "lower"), T("uk", "upper") }

MaxNameWords == 3

\* strings, None and values that are not strings
RawNames == SeqsOf(NameTokens, 0, MaxNameWords) \cup {NoName} \cup NonStrings

\* how many times in a row a normaliser is applied
MaxCalls == 2

\* the argument of the next call: the raw value, then the last result
NextArg == IF out = <<>> THEN arg ELSE out[Len(out)]

InitNames ==
    /\ pc = "normalize"
    /\ fn \in {"clean_university_name", "standardize_university_name"}
    /\ arg \in RawNames
    /\ out = <<>>
    /\ sim = EmptyDict
    /\ MatcherIdle /\ IntegratorIdle /\ CleanerIdle /\ ScorerIdle
    /\ PipelineIdle
    /\ CacheIdle
    /\ ImporterIdle
    /\ SchedulerIdle
    /\ ScraperIdle

CleanUniversityName ==
    /\ pc = "normalize"
    /\ fn = "clean_university_name"
    /\ Len(out) < MaxCalls
    /\ out' = Append(out, clean_university_name(NextArg))
    /\ UNCHANGED <<pc, fn, arg, exceptCall>>

StandardizeUniversityName ==
    /\ pc = "normalize"
    /\ fn = "standardize_university_name"
    /\ Len(out) < MaxCalls
    /\ out' = Append(out, standardize_university_name(NextArg))
    /\ UNCHANGED <<pc, fn, arg, exceptCall>>

NextNames == CleanUniversityName \/ StandardizeUniversityName

SpecNames == InitNames /\ [][NextNames]_vars

IsString(value) == value # NoName /\ value \notin NonStrings

(***************************************************************************)
(* C14: for every string s, normalising the result of normalising s gives  *)
(* the same string as normalising s once, for clean_university_name and    *)
(* for standardize_university_name.  Both strip one trailing parenthetical *)
(* group per call, and clean_university_name strips one leading "The" per  *)
(* call after a lower-case "the" has been capitalised by the call before,  *)
(* so this is violated.                                                    *)
(***************************************************************************)
C14_NameNormalisationIdempotent ==
    pc = "normalize" /\ IsString(arg) /\ Len(out) >= 2 => out[2] = out[1]

(***************************************************************************)
(* C16: for None, for the empty string and for any value that is not a     *)
(* string, clean_university_name and standardize_university_name return    *)
(* the empty string.  standardize_university_name returns str(value),      *)
(* title-cased, for a truthy value that is not a string, so this is        *)
(* violated.                                                               *)
(***************************************************************************)
C16_EmptyForNonStrings ==
    pc = "normalize" /\ (~IsString(arg) \/ arg = <<>>) /\ Len(out) >= 1
        => out[1] = <<>>

(***************************************************************************)
(* Country and city normalisation of the cleaner                           *)
(***************************************************************************)
Cap(w) == T(w, "cap")
Low(w) == T(w, "lower")
Up(w) == T(w, "upper")

UnitedStates == << Cap("united"), Cap("states") >>
UnitedKingdom == << Cap("united"), Cap("kingdom") >>

\* _load_country_mappings: <<key, value>>
country_mappings ==
    { << <<Up("us")>>, UnitedStates >>,
      << <<Up("usa")>>, UnitedStates >>,
      << <<Cap("united"), Cap("states"), Low("of"), Cap("america")>>, UnitedStates >>,
      << <<Up("uk")>>, UnitedKingdom >>,
      << <<Cap("great"), Cap("britain")>>, UnitedKingdom >>,
      << <<Cap("england")>>, UnitedKingdom >>,
      << <<Cap("scotland")>>, UnitedKingdom >>,
      << <<Cap("wales")>>, UnitedKingdom >>,
      << <<Cap("northern"), Cap("ireland")>>, UnitedKingdom >>,
      << <<Cap("russia")>>, <<Cap("russian"), Cap("federation")>> >>,
      << <<Cap("south"), Cap("korea")>>,
         <<Cap("republic"), Low("of"), Cap("korea")>> >>,
      << <<Cap("north"), Cap("korea")>>,
         <<Cap("democratic"), Cap("people's"), Cap("republic"), Low("of"),
           Cap("korea")>> >>,
      << <<Cap("iran")>>,
         <<Cap("islamic"), Cap("republic"), Low("of"), Cap("iran")>> >>,
      << <<Cap("vietnam")>>, <<Cap("viet"), Cap("nam")>> >>,
      << <<Cap("czech"), Cap("republic")>>, <<Cap("czechia")>> >>,
      << <<Cap("macedonia")>>, <<Cap("north"), Cap("macedonia")>> >>,
      << <<Cap("myanmar")>>, <<Cap("myanmar"), T("(burma)", "title")>> >>,
      << <<Cap("congo")>>,
         <<Cap("democratic"), Cap("republic"), Low("of"), Low("the"),
           Cap("congo")>> >> }

MappingKeys == {m[1] : m \in country_mappings}
MappingValues == {m[2] : m \in country_mappings}
Mapped(country) == (CHOOSE m \in country_mappings : m[1] = country)[2]

\* re.sub of a one-word pattern (case-insensitive) by a literal of several
\* words, keeping what follows the match inside the word
RECURSIVE ExpandWord(_, _, _)
ExpandWord(name, words, lits) ==
    IF name = <<>> THEN <<>>
    ELSE (IF name[1].w \in words THEN lits ELSE <<name[1]>>)
            \o ExpandWord(Tail(name), words, lits)

\* the standardizations dict of clean_country_name, in dict order; the last
\* \.? of the dotted patterns cannot match before the end of a word, so the
\* final dot stays
Standardize(country) ==
    LET s1 == ExpandWord(country, {"us", "usa"}, UnitedStates)
        s2 == ExpandWord(s1, {"uk"}, UnitedKingdom)
        s3 == ExpandWord(s2, {"u.s.a", "us.a", "u.sa"}, UnitedStates)
        s4 == ExpandWord(s3, {"u.s.a.", "usa.", "us.a.", "u.sa."},
                         <<Cap("united"), Cap("states.")>>)
        s5 == ExpandWord(s4, {"u.k"}, UnitedKingdom)
        s6 == ExpandWord(s5, {"u.k.", "uk."}, <<Cap("united"), Cap("kingdom.")>>)
    IN s6

\* words in which a letter follows a character that is not a letter:
\* str.title() capitalises that letter too
HasInnerBreak(t) == t.w \in {"people's", "(burma)", "(a)", "(b)", "(x)", "(usa)"}

\* str.title() of one word
TitleWord(t) ==
    IF t.w \in {",", "-"} THEN T(t.w, "lower")
    ELSE IF HasInnerBreak(t) THEN T(t.w, "title")
    ELSE T(t.w, "cap")

\* str.title()
Title(text) == [i \in 1..Len(text) |-> TitleWord(text[i])]

clean_country_name(country) ==
    IF country = NoName \/ country \in NonStrings THEN <<>>
    ELSE IF country \in MappingKeys THEN Mapped(country)
    ELSE Title(Standardize(country))

\* r',\s*[A-Z]{2,}$'
clean_city_name(city) ==
    IF city = NoName \/ city \in NonStrings THEN <<>>
    ELSE Title(StripTrailingCode(StripTrailingParen(city), ","))

(***************************************************************************)
(* Calls of the country and city normalisers on raw values                 *)
(***************************************************************************)
RawCountries ==
    MappingKeys \cup MappingValues \cup NonStrings \cup
    { NoName, <<>>, <<Low("usa")>>, <<Cap("usa")>>, <<Low("uk")>>,
      <<Up("u.s.a.")>>, <<Low("u.k.")>>, <<Up("usa.")>>,
      <<Low("germany")>>, <<Cap("germany")>>, <<Up("germany")>>,
      <<Low("south"), Low("korea")>>, <<Low("the"), Up("us")>>,
      <<Cap("republic"), Cap("of"), Cap("korea")>> }

CityTokens ==
    { Cap("boston"), Low("boston"), T("(a)", "upper"), Low(","), Up("ma"),
      Low("ma") }

MaxCityWords == 3

RawCities == SeqsOf(CityTokens, 0, MaxCityWords) \cup {NoName} \cup NonStrings

InitPlaces ==
    /\ pc = "normalize"
    /\ \/ fn = "clean_country_name" /\ arg \in RawCountries
       \/ fn = "clean_city_name" /\ arg \in RawCities
    /\ out = <<>>
    /\ sim = EmptyDict
    /\ MatcherIdle /\ IntegratorIdle /\ CleanerIdle /\ ScorerIdle
    /\ PipelineIdle
    /\ CacheIdle
    /\ ImporterIdle
    /\ SchedulerIdle
    /\ ScraperIdle

CleanCountryName ==
    /\ pc = "normalize"
    /\ fn = "clean_country_name"
    /\ Len(out) < MaxCalls
    /\ out' = Append(out, clean_country_name(NextArg))
    /\ UNCHANGED <<pc, fn, arg, exceptCall>>

CleanCityName ==
    /\ pc = "normalize"
    /\ fn = "clean_city_name"
    /\ Len(out) < MaxCalls
    /\ out' = Append(out, clean_city_name(NextArg))
    /\ UNCHANGED <<pc, fn, arg, exceptCall>>

NextPlaces == CleanCountryName \/ CleanCityName

SpecPlaces == InitPlaces /\ [][NextPlaces]_vars

(***************************************************************************)
(* C15: for every string s, clean_country_name and clean_city_name give    *)
(* the same result applied twice as applied once, the keys and the values  *)
(* of the country mapping included.  A mapping value with a lower-case     *)
(* word ("Republic of Korea") is no key, so the second call title-cases    *)
(* it, and clean_city_name strips one trailing parenthetical group per     *)
(* call, so this is violated.                                              *)
(***************************************************************************)
C15_PlaceNormalisationIdempotent ==
    pc = "normalize" /\ IsString(arg) /\ Len(out) >= 2 => out[2] = out[1]

(***************************************************************************)
(* Rank and score parsing                                                  *)
(*   A raw cell is None (NoCell) or a string, here a sequence of           *)
(*   characters.  HugeRun stands for a run of more decimal digits than     *)
(*   int() converts (sys.get_int_max_str_digits, 4300 by default from      *)
(*   Python 3.11 on; no limit before, or when it is switched off).         *)
(***************************************************************************)
HugeRun == "H"

\* None / NaN in a cell
NoCell == << "None" >>

DigitChars == {"0", "1", "5"}

IsDigit(c) == c \in DigitChars \cup {HugeRun}

DigitValue(c) == CASE c = "0" -> 0 [] c = "1" -> 1 [] c = "5" -> 5

\* what a call returns or does: v holds an int as <<n>> and a float as the
\* fraction <<n, d>>; huge marks a number with more digits than HugeRun allows
\* to write down
ReturnsNone == [kind |-> "None", v |-> <<>>, huge |-> FALSE]
ReturnsInt(n) == [kind |-> "int", v |-> <<n>>, huge |-> FALSE]
ReturnsHugeInt == [kind |-> "int", v |-> <<>>, huge |-> TRUE]
ReturnsFloat(x) == [kind |-> "float", v |-> x, huge |-> FALSE]
ReturnsHugeFloat == [kind |-> "float", v |-> <<>>, huge |-> TRUE]
ReturnsNaN == [kind |-> "nan", v |-> <<>>, huge |-> FALSE]
RaisesValueError == [kind |-> "raises", v |-> <<>>, huge |-> FALSE]

\* str.lower()
LowerChar(c) == IF c = "N" THEN "n" ELSE c
Lower(s) == [i \in 1..Len(s) |-> LowerChar(s[i])]

\* str.strip()
RECURSIVE LStrip(_)
LStrip(s) == IF s # <<>> /\ s[1] = " " THEN LStrip(Tail(s)) ELSE s

RECURSIVE RStrip(_)
RStrip(s) ==
    IF s # <<>> /\ s[Len(s)] = " " THEN RStrip(SubSeq(s, 1, Len(s) - 1)) ELSE s

Strip(s) == RStrip(LStrip(s))

\* word in s
Contains(s, word) ==
    \E i \in 1..Len(s) :
        i + Len(word) - 1 <= Len(s) /\ SubSeq(s, i, i + Len(word) - 1) = word

\* s.split(c)[0] when c is in s; also re.sub(c + '.*$', '', s)
Before(s, c) ==
    IF \E i \in 1..Len(s) : s[i] = c
    THEN LET first == CHOOSE i \in 1..Len(s) :
                         s[i] = c /\ \A j \in 1..(i - 1) : s[j] # c
         IN SubSeq(s, 1, first - 1)
    ELSE s

\* the longest run of digits that starts at position i
RECURSIVE RunFrom(_, _)
RunFrom(s, i) ==
    IF i <= Len(s) /\ IsDigit(s[i]) THEN <<s[i]>> \o RunFrom(s, i + 1) ELSE <<>>

FirstDigit(s) ==
    CHOOSE i \in 1..Len(s) : IsDigit(s[i]) /\ \A j \in 1..(i - 1) : ~IsDigit(s[j])

HasDigit(s) == \E i \in 1..Len(s) : IsDigit(s[i])

\* re.search(r'\d+', s).group()
FirstDigitRun(s) == RunFrom(s, FirstDigit(s))

\* the number a run of digits denotes
RECURSIVE Val(_)
Val(run) ==
    IF run = <<>> THEN 0
    ELSE 10 * Val(SubSeq(run, 1, Len(run) - 1)) + DigitValue(run[Len(run)])

RECURSIVE Pow10(_)
Pow10(n) == IF n = 0 THEN 1 ELSE 10 * Pow10(n - 1)

IsHuge(run) == \E i \in 1..Len(run) : run[i] = HugeRun

\* int() of a run of digits
IntOfRun(run) ==
    IF IsHuge(run) THEN {RaisesValueError, ReturnsHugeInt}
    ELSE {ReturnsInt(Val(run))}

not_ranked_words ==
    { <<"n", "o", "t">>, <<"u", "n", "r", "a", "n", "k", "e", "d">>,
      <<"n", "/", "a">>, <<"n", "a">> }

\* _parse_ranking: the outcomes the interpreter can produce
parse_ranking(rank_value) ==
    IF rank_value = NoCell THEN {ReturnsNone}
    ELSE LET rank_str == Strip(rank_value)
         IN IF \E word \in not_ranked_words : Contains(Lower(rank_str), word)
            THEN {ReturnsNone}
            ELSE LET no_prefix == IF rank_str # <<>> /\ rank_str[1] \in {"=", "#", "+"}
                                  THEN Tail(rank_str)
                                  ELSE rank_str
                     lower_bound == IF \E i \in 1..Len(no_prefix) : no_prefix[i] = "-"
                                    THEN Before(no_prefix, "-")
                                    ELSE no_prefix
                     no_plus == Before(lower_bound, "+")
                 IN IF HasDigit(no_plus)
                    THEN IntOfRun(FirstDigitRun(no_plus))
                    ELSE {ReturnsNone}

\* int(rank_str) inside try / except ValueError
IntOrNone(s) ==
    LET t == Strip(s)
    IN IF t # <<>> /\ \A i \in 1..Len(t) : IsDigit(t[i])
       THEN {IF r = RaisesValueError THEN ReturnsNone ELSE r : r \in IntOfRun(t)}
       ELSE {ReturnsNone}

\* clean_qs_rank: the outcomes the interpreter can produce
clean_qs_rank(rank_value) ==
    IF rank_value = NoCell THEN {ReturnsNone}
    ELSE LET rank_str == Strip(rank_value)
             no_equals == IF rank_str # <<>> /\ rank_str[1] = "="
                          THEN Tail(rank_str)
                          ELSE rank_str
             lower_bound == Before(no_equals, "-")
             no_plus == Before(lower_bound, "+")
         IN IntOrNone(no_plus)

\* the value of the decimal literal whole "." fraction
Decimal(whole, fraction) ==
    IF IsHuge(whole \o fraction) THEN ReturnsHugeFloat
    ELSE ReturnsFloat(Frac(Val(whole \o fraction), Pow10(Len(fraction))))

Negated(r) ==
    IF r.kind = "float" /\ ~r.huge
    THEN ReturnsFloat(Frac(0 - r.v[1], r.v[2]))
    ELSE r

DividedBy10(r) ==
    IF r.kind = "float" /\ ~r.huge
    THEN ReturnsFloat(Frac(r.v[1], r.v[2] * 10))
    ELSE r

\* float(s) inside try / except ValueError
FloatOrNone(s) ==
    LET t == Strip(s)
        signed == t # <<>> /\ t[1] \in {"+", "-"}
        body == IF signed THEN Tail(t) ELSE t
        whole == Before(body, ".")
        fraction == SubSeq(body, Len(whole) + 2, Len(body))
        unsigned ==
            IF Lower(body) = <<"n", "a", "n">> THEN ReturnsNaN
            ELSE IF /\ \A i \in 1..Len(whole) : IsDigit(whole[i])
                    /\ \A i \in 1..Len(fraction) : IsDigit(fraction[i])
                    /\ whole \o fraction # <<>>
                 THEN Decimal(whole, fraction)
                 ELSE ReturnsNone
    IN IF signed /\ t[1] = "-" THEN Negated(unsigned) ELSE unsigned

\* re.search(r'\d+\.?\d*', s).group(), as <<whole, fraction>>
FirstNumber(s) ==
    LET i == FirstDigit(s)
        whole == RunFrom(s, i)
        next == i + Len(whole)
    IN IF next <= Len(s) /\ s[next] = "."
       THEN <<whole, RunFrom(s, next + 1)>>
       ELSE <<whole, <<>> >>

\* _parse_score
parse_score(score_value) ==
    IF score_value = NoCell THEN {ReturnsNone}
    ELSE LET score_str == Strip(score_value)
         IN IF \E i \in 1..Len(score_str) : score_str[i] = "%"
            THEN {DividedBy10(FloatOrNone(SelectSeq(score_str,
                                                    LAMBDA c : c # "%")))}
            ELSE IF HasDigit(score_str)
                 THEN {Decimal(FirstNumber(score_str)[1], FirstNumber(score_str)[2])}
                 ELSE {ReturnsNone}

(***************************************************************************)
(* Calls of the parsers on raw cells                                       *)
(***************************************************************************)
CellChars ==
    DigitChars \cup {HugeRun, "=", "#", "+", "-", ".", "%", "n", "a", "N", " "}

MaxChars == 3

RawCells == SeqsOf(CellChars, 0, MaxChars) \cup {NoCell}

InitParse ==
    /\ pc = "parse"
    /\ fn \in {"_parse_ranking", "_parse_score", "clean_qs_rank"}
    /\ arg \in RawCells
    /\ out = <<>>
    /\ sim = EmptyDict
    /\ MatcherIdle /\ IntegratorIdle /\ CleanerIdle /\ ScorerIdle
    /\ PipelineIdle
    /\ CacheIdle
    /\ ImporterIdle
    /\ SchedulerIdle
    /\ ScraperIdle

ParseRanking ==
    /\ pc = "parse"
    /\ fn = "_parse_ranking"
    /\ out = <<>>
    /\ \E r \in parse_ranking(arg) : out' = <<r>>
    /\ UNCHANGED <<pc, fn, arg, exceptCall>>

ParseScore ==
    /\ pc = "parse"
    /\ fn = "_parse_score"
    /\ out = <<>>
    /\ \E r \in parse_score(arg) : out' = <<r>>
    /\ UNCHANGED <<pc, fn, arg, exceptCall>>

CleanQsRank ==
    /\ pc = "parse"
    /\ fn = "clean_qs_rank"
    /\ out = <<>>
    /\ \E r \in clean_qs_rank(arg) : out' = <<r>>
    /\ UNCHANGED <<pc, fn, arg, exceptCall>>

NextParse == ParseRanking \/ ParseScore \/ CleanQsRank

SpecParse == InitParse /\ [][NextParse]_vars

IsNull(r) == r.kind \in {"None", "nan"}

(***************************************************************************)
(* C17: _parse_ranking and _parse_score return a value, without raising,   *)
(* for None and for every string, and return null for every input without  *)
(* a digit.  int() of the digit run is not guarded in _parse_ranking, and  *)
(* it raises ValueError on a run longer than the interpreter's conversion  *)
(* limit, so this is violated.                                             *)
(***************************************************************************)
C17_ParsersTotal ==
    pc = "parse" /\ fn \in {"_parse_ranking", "_parse_score"} /\ out # <<>>
        => /\ out[1].kind # "raises"
           /\ (arg = NoCell \/ ~HasDigit(arg)) => IsNull(out[1])

RankParsers == {"_parse_ranking", "clean_qs_rank"}

(***************************************************************************)
(* C18: for None and for every string, _parse_ranking and clean_qs_rank    *)
(* return null or an integer >= 1, never 0 or a negative number.  Both     *)
(* return 0 for "0", so this is violated.                                  *)
(***************************************************************************)
C18_RankPositive ==
    pc = "parse" /\ fn \in RankParsers /\ out # <<>> /\ out[1].kind # "raises"
        => \/ IsNull(out[1])
           \/ out[1].kind = "int" /\ (out[1].huge \/ out[1].v[1] >= 1)

\* the digit strings in play that denote a positive integer
PositiveDigitStrings ==
    {d \in SeqsOf(DigitChars, 1, MaxChars) : Val(d) >= 1}

\* d, '=' + d, '#' + d, '+' + d, d + '-' + e, d + '+'
RankForms(d) ==
    {d, <<"=">> \o d, <<"#">> \o d, <<"+">> \o d, d \o <<"+">>}
        \cup {d \o <<"-">> \o e : e \in PositiveDigitStrings}

(***************************************************************************)
(* C19: for digit strings d and e denoting positive integers,              *)
(* _parse_ranking and clean_qs_rank return int(d) for d, '=' + d, '#' + d, *)
(* '+' + d, d + '-' + e and d + '+', and null for None and for 'n/a'-like  *)
(* text.  clean_qs_rank strips only '=' and cuts at the first '+', so it   *)
(* returns null for '#' + d and '+' + d, and this is violated.             *)
(***************************************************************************)
C19_RankForms ==
    pc = "parse" /\ fn \in RankParsers /\ out # <<>>
        => /\ \A d \in PositiveDigitStrings :
                 arg \in RankForms(d) => out[1] = ReturnsInt(Val(d))
           /\ arg \in {NoCell, <<"n", "a">>, <<"N", "a">>} => out[1] = ReturnsNone

(***************************************************************************)
(* clean_dataset: column cleaning, duplicate resolution, validation        *)
(***************************************************************************)
\* the text of a capitalised word
Capitalized ==
    [w \in {"germany", "united", "kingdom", "munich"} |->
        CASE w = "germany" -> "Germany"
          [] w = "united" -> "United"
          [] w = "kingdom" -> "Kingdom"
          [] w = "munich" -> "Munich"]

WordText(t) == IF t.k = "cap" THEN Capitalized[t.w] ELSE t.w

\* ' '.join(words): the string a cleaned country or city is
RECURSIVE Text(_)
Text(tokens) ==
    IF tokens = <<>> THEN ""
    ELSE IF Len(tokens) = 1 THEN WordText(tokens[1])
    ELSE WordText(tokens[1]) \o " " \o Text(Tail(tokens))

ranking_columns == {"rank", "qs_rank", "the_rank", "arwu_rank", "us_news_rank"}

score_columns ==
    {"score", "qs_score", "the_score", "academic_rigor", "student_life",
     "cultural_diversity", "campus_safety", "research_quality", "overall_quality"}

clamped_columns ==
    {"academic_rigor", "student_life", "cultural_diversity", "campus_safety"}

\* what a parser returns for a cell without an over-long digit run
TheOutcome(outcomes) == CHOOSE r \in outcomes : TRUE

\* the cell value a parsed rank is
RankCell(r) == IF r.kind = "int" /\ ~r.huge THEN r.v[1] ELSE Null

\* the cell value a parsed score is, in units of 1 / ScoreUnit
ScoreCell(r) ==
    IF r.kind = "float" /\ ~r.huge THEN (r.v[1] * ScoreUnit) \div r.v[2] ELSE Null

\* min(10, max(0, x)) if pd.notna(x) else x
Clamp(x) ==
    IF x = Null THEN x
    ELSE IF x < 0 THEN 0
    ELSE IF x > 10 * ScoreUnit THEN 10 * ScoreUnit
    ELSE x

\* the column-wise steps of clean_dataset on one row
CleanedRow_(row) ==
    [c \in DOMAIN row |->
        IF c = "name" THEN clean_university_name(row[c])
        ELSE IF c = "country" THEN Text(clean_country_name(row[c]))
        ELSE IF c = "city" THEN Text(clean_city_name(row[c]))
        ELSE IF c \in ranking_columns
             THEN RankCell(TheOutcome(parse_ranking(row[c])))
        ELSE IF c \in clamped_columns
             THEN Clamp(ScoreCell(TheOutcome(parse_score(row[c]))))
        ELSE IF c \in score_columns
             THEN ScoreCell(TheOutcome(parse_score(row[c])))
        ELSE row[c]]

clean_columns(rows) == [i \in 1..Len(rows) |-> CleanedRow_(rows[i])]

validated_ranking_columns == {"qs_rank", "the_rank", "arwu_rank"}

\* ~n of an int
BitwiseNot(n) == 0 - n - 1

\* r'^\d+$' on a name
IsPureNumber(name) == Len(name) = 1 /\ name[1].w \in {"42", "0"}

\* the row filters of _validate_data, in order
KeptByValidation(row) ==
    /\ ~IsNA("name", row["name"]) /\ ~IsNA("country", row["country"])
    /\ \A c \in validated_ranking_columns \cap DOMAIN row :
          ~(row[c] <= 0 /\ row[c] # Null)
    /\ \A c \in clamped_columns \cap DOMAIN row :
          ~(row[c] < 0 \/ row[c] > 10 * ScoreUnit) \/ row[c] = Null
    /\ BitwiseNot(CharLen(row["name"])) < 3
    /\ ~IsPureNumber(row["name"])

validate_data(rows) == SelectSeq(rows, KeptByValidation)

(***************************************************************************)
(* The raw datasets handed to clean_dataset                                *)
(***************************************************************************)
RawRowNames ==
    { << Cap("tu"), Cap("munich") >>, << Low("tu"), Cap("munchen") >> }

\* a missing country, an empty one, and two that are stated
RawRowCountries == { NoName, <<>>, << Low("germany") >>, << Up("uk") >> }

\* the rank and score cells of a raw row
RawRowCells ==
    { [qs_rank |-> <<"5">>, academic_rigor |-> <<"1", "5">>,
       research_quality |-> <<"1", "5">>],
      [qs_rank |-> <<"0">>, academic_rigor |-> <<"5">>,
       research_quality |-> <<"5">>],
      [qs_rank |-> NoCell, academic_rigor |-> NoCell,
       research_quality |-> <<"5", "%">>] }

RawRow(name, country, cells) ==
    [c \in {"name", "country", "city"} \cup DOMAIN cells |->
        IF c = "name" THEN name
        ELSE IF c = "country" THEN country
        ELSE IF c = "city" THEN << Low("munich") >>
        ELSE cells[c]]

MaxRawRows == 2

InitClean ==
    /\ pc = "clean"
    /\ \E n \in 1..MaxRawRows :
       \E names \in [1..n -> RawRowNames] :
       \E countries \in [1..n -> RawRowCountries] :
       \E cells \in [1..n -> RawRowCells] :
          raw_df = [i \in 1..n |-> RawRow(names[i], countries[i], cells[i])]
    /\ ratio \in RatioTables({LowerName(clean_university_name(name)) :
                                 name \in {raw_df[i]["name"] : i \in DOMAIN raw_df}})
    /\ df = <<>>
    /\ duplicates = <<>>
    /\ deduplicated = <<>>
    /\ validated = <<>>
    /\ sim = EmptyDict
    /\ MatcherIdle /\ IntegratorIdle /\ ScorerIdle /\ CallIdle
    /\ CacheIdle
    /\ ImporterIdle
    /\ SchedulerIdle
    /\ ScraperIdle

\* cleaned_df = df.copy() and the column-wise steps
CleanColumns ==
    /\ pc = "clean"
    /\ \E rows \in {raw_df} : df' = clean_columns(rows)
    /\ pc' = "dedup"
    /\ UNCHANGED <<ratio, duplicates, deduplicated, exceptCleaner>>

\* cleaned_df = self._validate_data(cleaned_df)
ValidateData ==
    /\ pc = "deduped"
    /\ validated' = validate_data(deduplicated)
    /\ pc' = "validated"
    /\ UNCHANGED <<raw_df, exceptPipeline>>

NextClean == CleanColumns \/ HandleDuplicates \/ ValidateData

SpecClean == InitClean /\ [][NextClean]_vars

(***************************************************************************)
(* C20: every record in the output of clean_dataset has a non-empty        *)
(* country, whatever the raw country was.  clean_country_name turns a      *)
(* missing country into "", which dropna does not remove, so this is       *)
(* violated.                                                               *)
(***************************************************************************)
C20_CountryNonEmpty ==
    pc = "validated" =>
        \A i \in DOMAIN validated :
            /\ ~IsNA("country", validated[i]["country"])
            /\ validated[i]["country"] # ""


\* the score attributes of an output record
score_attributes ==
    {"academic_rigor", "student_life", "cultural_diversity", "campus_safety",
     "research_quality", "overall_quality"}

(***************************************************************************)
(* C21: in every record output by clean_dataset each score attribute that  *)
(* is present lies in [0, 10].  Only four of the six are clamped and       *)
(* validated; research_quality and overall_quality keep whatever number    *)
(* _parse_score read, so this is violated.                                 *)
(***************************************************************************)
C21_ScoresInRange ==
    pc = "validated" =>
        \A i \in DOMAIN validated :
            \A c \in score_attributes \cap DOMAIN validated[i] :
                \/ validated[i][c] = Null
                \/ 0 <= validated[i][c] /\ validated[i][c] <= 10 * ScoreUnit

(***************************************************************************)
(* C22: _validate_data signals a record that violates a bound and removes  *)
(* nothing, so the records after it are the records before it.  The code   *)
(* filters the frame and raises nothing, so this is violated.              *)
(***************************************************************************)
C22_ValidationKeepsRecords ==
    pc = "validated" => validated = deduplicated

\* the group has a member that carries a country
HasCountry(group) ==
    \E k \in DOMAIN group :
        /\ ~IsNA("country", df[group[k]]["country"])
        /\ df[group[k]]["country"] # ""

(***************************************************************************)
(* C23: _handle_duplicates never completes a merge of a group whose        *)
(* members all lack a country; such a group makes it raise.  The code has  *)
(* no raise: two rows with country "" and similar names compare equal on   *)
(* country and are merged like any other group, so this is violated.       *)
(***************************************************************************)
C23_NoCountrylessMerge ==
    pc = "deduped" => \A g \in DOMAIN duplicates : HasCountry(duplicates[g])

(***************************************************************************)
(* C24: merge_data_sources leaves both of its arguments with the columns   *)
(* and values they had before the call.  The call assigns                  *)
(* feedback_df['qs_match_name'] on the frame it was handed, so a non-empty *)
(* feedback frame comes back with one more column and this is violated.    *)
(***************************************************************************)
C24_ArgumentsUnchanged ==
    [][pc = "merge" => feedback_df' = feedback_df /\ qs_df' = qs_df]_vars

(***************************************************************************)
(* Concurrent calls of clean_university_name on one cleaner                *)
(*                                                                         *)
(* Each thread runs calls one after the other; a call is the test of its   *)
(* argument, the cache lookup, the read of a found entry or the            *)
(* computation, the cache write, and the return, each a step of its own.   *)
(***************************************************************************)
NumThreads == 2

Threads == 1..NumThreads

\* the values the threads call clean_university_name with
CacheNames ==
    { << T("the", "cap"), T("toronto", "cap") >>,
      << T("toronto", "cap"), T("(a)", "upper") >>,
      << T("toronto", "cap") >>,
      NoName, FortyTwo }

\* a thread between two calls
NotCalling == [pc |-> "idle", name |-> <<>>, local |-> <<>>]

\* a stored value that is the key instead of the cleaned name
CacheWriteRaw(cache, original_name, name) ==
    [k \in DOMAIN cache \cup {original_name} |->
        IF k = original_name THEN original_name ELSE cache[k]]

\* self.university_name_cache[original_name] = name
CacheWrite(cache, original_name, name) ==
    [k \in DOMAIN cache \cup {original_name} |->
        IF k = original_name THEN name ELSE cache[k]]

InitCache ==
    /\ pc = "cache"
    /\ university_name_cache = EmptyDict
    /\ threads = [t \in Threads |-> NotCalling]
    /\ sim = EmptyDict
    /\ MatcherIdle /\ IntegratorIdle /\ CleanerIdle /\ ScorerIdle
    /\ CallIdle /\ PipelineIdle
    /\ ImporterIdle
    /\ SchedulerIdle
    /\ ScraperIdle

\* if pd.isna(name) or not isinstance(name, str): return ""
Call(t) ==
    /\ threads[t].pc = "idle"
    /\ \E name \in CacheNames :
          threads' = [threads EXCEPT ![t] =
                         [pc |-> IF name = NoName \/ name \in NonStrings
                                 THEN "returned" ELSE "lookup",
                          name |-> name, local |-> <<>>]]
    /\ UNCHANGED <<pc, university_name_cache, exceptCache>>

\* if name in self.university_name_cache
Lookup(t) ==
    /\ threads[t].pc = "lookup"
    /\ threads' = [threads EXCEPT ![t].pc =
                      IF threads[t].name \in DOMAIN university_name_cache
                      THEN "read" ELSE "compute"]
    /\ UNCHANGED <<pc, university_name_cache, exceptCache>>

\* return self.university_name_cache[name]
Read(t) ==
    /\ threads[t].pc = "read"
    /\ threads' = [threads EXCEPT ![t].pc = "returned",
                                  ![t].local = university_name_cache[threads[t].name]]
    /\ UNCHANGED <<pc, university_name_cache, exceptCache>>

\* the substitutions and the title case, on the thread's own variables
Compute(t) ==
    /\ threads[t].pc = "compute"
    /\ \E name \in {threads[t].name} :
          threads' = [threads EXCEPT ![t].pc = "write",
                                     ![t].local = clean_university_name(name)]
    /\ UNCHANGED <<pc, university_name_cache, exceptCache>>

\* self.university_name_cache[original_name] = name; return name
Write(t) ==
    /\ threads[t].pc = "write"
    /\ university_name_cache' =
          CacheWrite(university_name_cache, threads[t].name, threads[t].local)
    /\ threads' = [threads EXCEPT ![t].pc = "returned"]
    /\ UNCHANGED <<pc, exceptCache>>

\* the caller takes the value; the thread is free for its next call
Return(t) ==
    /\ threads[t].pc = "returned"
    /\ threads' = [threads EXCEPT ![t] = NotCalling]
    /\ UNCHANGED <<pc, university_name_cache, exceptCache>>

NextCache ==
    \E t \in Threads :
        Call(t) \/ Lookup(t) \/ Read(t) \/ Compute(t) \/ Write(t) \/ Return(t)

SpecCache == InitCache /\ [][NextCache]_vars

\* what a call on a fresh cleaner, with an empty cache, returns
FreshResult == [name \in CacheNames |-> clean_university_name(name)]

CacheConsistent ==
    /\ \A t \in Threads :
          threads[t].pc = "returned"
              => threads[t].local = FreshResult[threads[t].name]
    /\ \A k \in DOMAIN university_name_cache :
          /\ k \in CacheNames
          /\ university_name_cache[k] = FreshResult[k]
          /\ k # NoName /\ k \notin NonStrings

EntriesKept ==
    \A k \in DOMAIN university_name_cache :
        /\ k \in DOMAIN university_name_cache'
        /\ university_name_cache'[k] = university_name_cache[k]

(***************************************************************************)
(* C25: under every interleaving of the steps of concurrent calls on one   *)
(* cleaner, a call returns what a call on a fresh cleaner returns for the  *)
(* same argument, every cache entry maps a string to its cleaned name, no  *)
(* entry is ever replaced by a different value, and None and non-string    *)
(* arguments create no entry.                                              *)
(***************************************************************************)
C25_CacheSafeUnderInterleaving ==
    []CacheConsistent /\ [][EntriesKept]_vars

\* a thread is about to write an entry that another call has already written
\* and returned
C25_Witness ==
    /\ pc = "cache"
    /\ \E t, u \in Threads :
          /\ t # u
          /\ threads[t].pc = "write"
          /\ threads[t].name \in DOMAIN university_name_cache
          /\ threads[u].pc = "returned"
          /\ threads[u].name = threads[t].name

\* rows a, b, c of df share a country, a ~ b and b ~ c, but a and c are not
\* similar
SimilarChain(a, b, c) ==
    /\ df[a]["country"] = df[b]["country"] /\ df[b]["country"] = df[c]["country"]
    /\ NameRatio(ratio, df[a], df[b]) > DuplicateThreshold
    /\ NameRatio(ratio, df[b], df[c]) > DuplicateThreshold
    /\ ~(NameRatio(ratio, df[a], df[c]) > DuplicateThreshold)

(***************************************************************************)
(* C26: for three records A, B, C of one country with A ~ B and B ~ C but  *)
(* A and C not similar, _handle_duplicates on A, B, C returns two records, *)
(* the merge of A and B and then C as it was; on B, A, C it returns one    *)
(* record, the merge of all three.                                         *)
(***************************************************************************)
C26_OrderDependentMerge ==
    pc = "deduped" /\ Len(df) = 3 =>
        /\ SimilarChain(1, 2, 3) =>
              /\ duplicates = << <<1, 2>> >>
              /\ deduplicated =
                    << merge_duplicate_rows(<<df[1], df[2]>>), df[3] >>
        /\ SimilarChain(2, 1, 3) =>
              /\ duplicates = << <<1, 2, 3>> >>
              /\ deduplicated = << merge_duplicate_rows(df) >>

\* the input order A, B, C has come out as two records
C26_Witness ==
    /\ pc = "deduped" /\ Len(df) = 3
    /\ SimilarChain(1, 2, 3)
    /\ Len(deduplicated) = 2

(***************************************************************************)
(* DatabaseImporter (data_pipeline/importers/database_importer.py)         *)
(*                                                                         *)
(* A numeric cell of an imported row is NaN, a number held in tenths, or   *)
(* the float inf.  SessionLocal is made with autoflush=False: an object    *)
(* added in a call is not seen by the queries of that call; an object      *)
(* loaded in a call keeps the attributes set on it until commit or         *)
(* rollback.  A query without ORDER BY may return its rows in any order.   *)
(***************************************************************************)
NaNCell == [kind |-> "nan", v |-> 0]
InfCell == [kind |-> "inf", v |-> 0]
Tenths(n) == [kind |-> "num", v |-> n]

integer_db_fields == {"qs_rank", "the_rank", "arwu_rank", "us_news_rank"}
float_db_fields == {"academic_rigor"}
string_db_fields == {"name", "city", "country", "data_sources"}

\* value is None, for the type the field has
IsNone(field, value) ==
    IF field = "name" THEN value = NoName
    ELSE IF field \in string_db_fields THEN value = None
    ELSE value = Null

\* int(float(value)) raises OverflowError on inf, which the except clause
\* of _parse_integer_field does not name
IntegerFieldRaises(cell) == cell.kind = "inf"

\* _parse_integer_field: None for NaN, else int(float(value))
parse_integer_field(cell) == IF cell.kind = "nan" THEN Null ELSE cell.v \div 10

\* _parse_float_field: None for NaN, else float(value), kept in tenths
parse_float_field(cell) == IF cell.kind = "nan" THEN Null ELSE cell.v

important_fields == {"name", "country", "qs_rank", "academic_rigor", "student_life",
                     "tuition_international", "cost_of_living"}

\* the fields _prepare_university_data reads from the row
ParsedFields(row) ==
    [f \in DOMAIN row |->
        IF f \in integer_db_fields THEN parse_integer_field(row[f])
        ELSE IF f \in float_db_fields THEN parse_float_field(row[f])
        ELSE IF f = "name" THEN row[f]
        ELSE IF row[f] = NaNText THEN None
        ELSE row[f]]

\* _calculate_data_quality_score, in sevenths
calculate_data_quality_score(data) ==
    Cardinality({f \in important_fields \cap DOMAIN data : ~IsNone(f, data[f])})

\* _prepare_university_data; now is the reading of datetime.utcnow()
prepare_university_data(row, now) ==
    LET data == ParsedFields(row)
    IN [f \in DOMAIN row \cup {"last_updated", "data_sources", "data_quality_score"} |->
           IF f = "last_updated" THEN now
           ELSE IF f = "data_sources" THEN "import_script"
           ELSE IF f = "data_quality_score" THEN calculate_data_quality_score(data)
           ELSE data[f]]

PrepareRaises(row) ==
    \E f \in integer_db_fields \cap DOMAIN row : IntegerFieldRaises(row[f])

\* 'rank' in field_name
IsRankName(field_name) == field_name \in integer_db_fields

\* 'score' in field_name or field_name in [...]
IsScoreName(field_name) ==
    field_name \in {"data_quality_score", "academic_rigor", "student_life",
                    "cultural_diversity"}

\* a rank comparison that prefers the higher number
should_update_field_higher(field_name, current_value, new_value) ==
    IF IsNone(field_name, current_value) THEN TRUE
    ELSE IF IsRankName(field_name) THEN new_value > current_value
    ELSE IF IsScoreName(field_name) THEN new_value > current_value
    ELSE ~IsNone(field_name, new_value)

should_update_field(field_name, current_value, new_value) ==
    IF IsNone(field_name, current_value) THEN TRUE
    ELSE IF IsRankName(field_name) THEN new_value < current_value
    ELSE IF IsScoreName(field_name) THEN new_value > current_value
    ELSE ~IsNone(field_name, new_value)

\* the loop of _update_university over university_data
update_university(existing, university_data) ==
    [key \in DOMAIN existing |->
        IF /\ key \in DOMAIN university_data
           /\ key # "id"
           /\ ~IsNone(key, university_data[key])
           /\ \/ IsNone(key, existing[key])
              \/ should_update_field(key, existing[key], university_data[key])
        THEN university_data[key]
        ELSE existing[key]]

FuzzyThreshold == 90

\* what _find_existing_university may return: 0 for None, else the position
\* of the university in the table.  The filters run in the database, on the
\* committed rows.
find_existing_university(row, rows, r) ==
    LET exact == {i \in DOMAIN rows :
                     rows[i]["name"] = row["name"] /\ rows[i]["country"] = row["country"]}
        fuzzy == {i \in DOMAIN rows :
                     /\ rows[i]["country"] = row["country"]
                     /\ r[<<LowerName(row["name"]), LowerName(rows[i]["name"])>>]
                           > FuzzyThreshold}
    IN IF row["name"] = <<>> \/ row["country"] = "" THEN {0}
       ELSE IF exact # {} THEN exact
       ELSE IF fuzzy # {} THEN fuzzy
       ELSE {0}

(***************************************************************************)
(* The rows imported and the import calls                                  *)
(***************************************************************************)
ImportedNames == {TuMunich, TuMunchen}

\* the rank cells of a row: qs_rank, the_rank, arwu_rank, us_news_rank
RankCells ==
    << <<Tenths(30), NaNCell, NaNCell, Tenths(50)>>,
       <<Tenths(50), Tenths(30), NaNCell, NaNCell>>,
       <<Tenths(35), Tenths(50), Tenths(50), NaNCell>>,
       <<NaNCell, NaNCell, NaNCell, NaNCell>>,
       <<InfCell, Tenths(30), NaNCell, NaNCell>> >>

OtherCells ==
    << [city |-> "Munich", academic_rigor |-> Tenths(60)],
       [city |-> NaNText, academic_rigor |-> NaNCell],
       [city |-> "Muenchen", academic_rigor |-> Tenths(80)] >>

ImportedRow(name, country, k) ==
    LET ranks == RankCells[k]
        other == OtherCells[(k % Len(OtherCells)) + 1]
    IN [name |-> name, country |-> country, city |-> other.city,
        qs_rank |-> ranks[1], the_rank |-> ranks[2], arwu_rank |-> ranks[3],
        us_news_rank |-> ranks[4], academic_rigor |-> other.academic_rigor]

\* rows of one university under its name, two under a similar name, and one
\* without a country
ImportedRows ==
    {ImportedRow(TuMunich, "Germany", k) : k \in DOMAIN RankCells}
        \cup {ImportedRow(TuMunchen, "Germany", k) : k \in {1, 2}}
        \cup {ImportedRow(TuMunich, "", 3)}

\* fuzz.ratio over the names in play, on either side of the threshold
FuzzTables(names) ==
    LET lowered == {LowerName(n) : n \in names}
    IN { [p \in lowered \X lowered |->
             IF p[1] = p[2] THEN 100 ELSE off] :
           off \in {FuzzyThreshold, FuzzyThreshold + 1} }

\* the rank values a university has been sent so far
NothingSent == [f \in integer_db_fields |-> {}]

Sent(seen, university_data) ==
    [f \in integer_db_fields |->
        IF university_data[f] = Null THEN seen[f] ELSE seen[f] \cup {university_data[f]}]

\* a university stored by an earlier import
StoredUniversity ==
    prepare_university_data(
        [name |-> TuMunich, country |-> "Germany", city |-> NaNText,
         qs_rank |-> Tenths(50), the_rank |-> NaNCell, arwu_rank |-> NaNCell,
         us_news_rank |-> Tenths(30), academic_rigor |-> NaNCell], 0)

MaxImportRows == 3

InitImport ==
    /\ pc = "idle"
    /\ stats = [total_processed |-> 0, created |-> 0, updated |-> 0,
                skipped |-> 0, errors |-> 0]
    /\ update_existing = TRUE
    /\ table \in {<<>>, <<StoredUniversity>>}
    /\ session = [loaded |-> table, new |-> <<>>]
    /\ imported =
          LET seen == [i \in DOMAIN table |-> Sent(NothingSent, table[i])]
          IN [committed |-> seen, session |-> seen]
    /\ ratio \in FuzzTables(ImportedNames)
    /\ df = <<>> /\ duplicates = <<>> /\ deduplicated = <<>>
    /\ sim = EmptyDict
    /\ MatcherIdle /\ IntegratorIdle /\ ScorerIdle /\ CallIdle /\ PipelineIdle
    /\ CacheIdle
    /\ SchedulerIdle
    /\ ScraperIdle

\* import_from_dataframe / import_from_csv up to the loop over the rows
BeginImport ==
    /\ pc = "idle"
    /\ update_existing' \in BOOLEAN
    /\ pc' = "importing"
    /\ UNCHANGED <<stats, table, session, imported, cleanerVars, exceptImporter>>

\* a row that raises is left out of total_processed
CountOnSuccess(counter) ==
    IF counter = "errors" THEN [stats EXCEPT ![counter] = @ + 1]
    ELSE [stats EXCEPT !.total_processed = @ + 1, ![counter] = @ + 1]

\* self.stats['total_processed'] += 1 and the counter of the row's outcome
Count(counter) == [stats EXCEPT !.total_processed = @ + 1, ![counter] = @ + 1]

\* one turn of the loop: _import_university_row, and the except clause
\* around it
ImportUniversityRow ==
    /\ pc = "importing"
    /\ stats.total_processed < MaxImportRows
    /\ \E row \in ImportedRows :
       \E existing \in find_existing_university(row, table, ratio) :
          LET now == stats.total_processed + 1
              university_data == prepare_university_data(row, now)
          IN IF existing # 0 /\ ~update_existing
             THEN /\ stats' = Count("skipped")
                  /\ UNCHANGED <<session, imported>>
             ELSE IF PrepareRaises(row)
             THEN /\ stats' = Count("errors")
                  /\ UNCHANGED <<session, imported>>
             ELSE IF existing # 0
             THEN /\ session' = [session EXCEPT !.loaded[existing] =
                                    update_university(@, university_data)]
                  /\ imported' = [imported EXCEPT !.session[existing] =
                                     Sent(@, university_data)]
                  /\ stats' = Count("updated")
             ELSE /\ session' = [session EXCEPT !.new = Append(@, university_data)]
                  /\ imported' = [imported EXCEPT !.session =
                                     Append(@, Sent(NothingSent, university_data))]
                  /\ stats' = Count("created")
    /\ UNCHANGED <<pc, update_existing, table, cleanerVars, exceptImporter>>

\* self.session.commit(); return self.stats
Commit ==
    /\ pc = "importing"
    /\ table' = session.loaded \o session.new
    /\ session' = [loaded |-> table', new |-> <<>>]
    /\ imported' = [imported EXCEPT !.committed = imported.session]
    /\ pc' = "idle"
    /\ UNCHANGED <<stats, update_existing, cleanerVars, exceptImporter>>

\* commit raises: self.session.rollback(); raise
CommitFails ==
    /\ pc = "importing"
    /\ session' = [loaded |-> table, new |-> <<>>]
    /\ imported' = [imported EXCEPT !.session = imported.committed]
    /\ pc' = "idle"
    /\ UNCHANGED <<stats, update_existing, table, cleanerVars, exceptImporter>>

NextImport == BeginImport \/ ImportUniversityRow \/ Commit \/ CommitFails

SpecImport == InitImport /\ [][NextImport]_vars

\* the universities the session holds: those loaded, then those added
SessionObjects == session.loaded \o session.new

MinOf(S) == CHOOSE x \in S : \A y \in S : x <= y

RanksAreMinimum ==
    pc \in {"idle", "importing"} =>
        \A i \in DOMAIN SessionObjects :
            \A f \in integer_db_fields :
                SessionObjects[i][f] =
                    IF imported.session[i][f] = {} THEN Null
                    ELSE MinOf(imported.session[i][f])

\* a step of the row loop
RowStep == pc = "importing" /\ pc' = "importing"

UpdateKeepsValues ==
    RowStep =>
        \A i \in DOMAIN session.loaded :
            /\ \A f \in DOMAIN session.loaded[i] :
                  ~IsNone(f, session.loaded[i][f]) => ~IsNone(f, session'.loaded[i][f])
            /\ \A f \in integer_db_fields :
                  session.loaded[i][f] # Null
                      => session'.loaded[i][f] <= session.loaded[i][f]

(***************************************************************************)
(* C27: for a stored university that receives imported rows with           *)
(* update_existing=True, after each update every rank field is the minimum *)
(* of the non-null values sent for it so far (None if there are none), no  *)
(* rank ever increases, and no field that was non-null is None afterwards. *)
(* A row counts as sent once _prepare_university_data has returned, with   *)
(* the integers _parse_integer_field made of its cells; the rows of a call *)
(* whose commit failed are taken back with it.                             *)
(***************************************************************************)
C27_RanksOnlyImprove ==
    []RanksAreMinimum /\ [][UpdateKeepsValues]_vars

\* a stored university has been sent two different QS ranks and holds the
\* lower one
C27_Witness ==
    /\ pc = "importing" /\ update_existing /\ stats.updated >= 1
    /\ \E i \in DOMAIN session.loaded :
          /\ imported.session[i]["qs_rank"] = {3, 5}
          /\ session.loaded[i]["qs_rank"] = 3

StatsAddUp ==
    pc \in {"idle", "importing"} =>
        stats.total_processed =
            stats.created + stats.updated + stats.skipped + stats.errors

NoUpdateWhenSwitchedOff ==
    pc = "importing" /\ ~update_existing =>
        /\ stats'.updated = stats.updated
        /\ \A i \in DOMAIN table :
              table'[i] = table[i] /\ session'.loaded[i] = session.loaded[i]

(***************************************************************************)
(* C28: after every row and every call of import_from_csv or               *)
(* import_from_dataframe, rows that raise included, total_processed =      *)
(* created + updated + skipped + errors; during a call with                *)
(* update_existing=False the updated counter stays as it is and no         *)
(* existing record changes.                                                *)
(***************************************************************************)
C28_StatsAddUp ==
    []StatsAddUp /\ [][NoUpdateWhenSwitchedOff]_vars

\* calls have ended with a row skipped, a row that raised, and a row stored
C28_Witness ==
    /\ pc = "idle"
    /\ stats.skipped >= 1 /\ stats.errors >= 1
    /\ stats.created + stats.updated >= 1

(***************************************************************************)
(* DataSyncScheduler.sync_if_needed (backend/google_sheets_integration.py) *)
(*                                                                         *)
(* universities.db is the SQLite file: its universities table exists or    *)
(* not, and each row carries last_updated, which SQLite sets to            *)
(* CURRENT_TIMESTAMP (UTC) on insert.  Times are whole hours.              *)
(* datetime.now() is the local time.                                       *)
(***************************************************************************)
NoTable == [exists |-> FALSE, last_updated |-> <<>>]

TableOf(times) == [exists |-> TRUE, last_updated |-> times]

MaxOf(S) == CHOOSE x \in S : \A y \in S : y <= x

\* SELECT last_updated FROM universities ORDER BY last_updated DESC LIMIT 1;
\* fetchone() gives None on an empty table
NewestLastUpdated(file) ==
    IF file.last_updated = <<>> THEN Null ELSE MaxOf(Range(file.last_updated))

SyncAfterHours == 24

\* (datetime.now() - last_update).total_seconds() / 3600
hours_since_update(last_update, now, offset) == (now + offset) - last_update

\* what full_data_sync may do: raise before update_database, or replace the
\* rows of the table by the merged ones, none included
FullDataSyncOutcomes(now) ==
    { [raised |-> TRUE, rows |-> <<>>],
      [raised |-> FALSE, rows |-> <<>>],
      [raised |-> FALSE, rows |-> <<now, now>>] }

Outcome(returned, synced) == [returned |-> returned, synced |-> synced]

InitSync ==
    /\ pc = "ready"
    /\ universities_db \in {NoTable, TableOf(<<>>), TableOf(<<0, 0>>)}
    /\ clock = 0
    /\ local_offset \in {0 - 1, 0, 1}
    /\ force_sync = FALSE
    /\ sync_outcome = Outcome(FALSE, FALSE)
    /\ sim = EmptyDict
    /\ MatcherIdle /\ IntegratorIdle /\ CleanerIdle /\ ScorerIdle
    /\ CallIdle /\ PipelineIdle /\ CacheIdle /\ ImporterIdle
    /\ ScraperIdle

MaxClock == 40

\* time passes between two calls
Tick ==
    /\ pc \in {"ready", "returned"}
    /\ \E hours \in {1, 12} :
          /\ clock + hours <= MaxClock
          /\ clock' = clock + hours
    /\ pc' = "ready"
    /\ UNCHANGED <<universities_db, local_offset, force_sync, sync_outcome,
                   exceptScheduler>>

\* the call of full_data_sync inside sync_if_needed, and the return
RunSync ==
    \E sync \in FullDataSyncOutcomes(clock) :
        IF sync.raised
        THEN /\ sync_outcome' = Outcome(FALSE, FALSE)
             /\ UNCHANGED universities_db
        ELSE /\ sync_outcome' = Outcome(TRUE, TRUE)
             /\ universities_db' = TableOf(sync.rows)

SyncIfNeeded ==
    /\ pc = "ready"
    /\ force_sync' \in BOOLEAN
    /\ IF ~universities_db.exists
       THEN \* cursor.execute raises sqlite3.OperationalError: no such table
            /\ sync_outcome' = Outcome(FALSE, FALSE)
            /\ UNCHANGED universities_db
       ELSE LET result == NewestLastUpdated(universities_db)
            IN IF force_sync' \/ result = Null
               THEN RunSync
               ELSE IF hours_since_update(result, clock, local_offset)
                          > SyncAfterHours
               THEN RunSync
               ELSE /\ sync_outcome' = Outcome(FALSE, FALSE)
                    /\ UNCHANGED universities_db
    /\ pc' = "returned"
    /\ UNCHANGED <<clock, local_offset, exceptScheduler>>

NextSync == Tick \/ SyncIfNeeded

SpecSync == InitSync /\ [][NextSync]_vars

\* the store asks for a sync: forced, no row, or the newest row older than a
\* day
SyncDue ==
    \/ force_sync'
    \/ NewestLastUpdated(universities_db) = Null
    \/ clock - NewestLastUpdated(universities_db) > SyncAfterHours

(***************************************************************************)
(* C29: from every state of the store, a database without the              *)
(* universities table included, sync_if_needed runs full_data_sync and     *)
(* returns True when force_sync is true, the store has no row, or the      *)
(* newest last_updated is more than 24 hours old, and returns False        *)
(* without syncing otherwise.  Without the table the SELECT raises and the *)
(* except clause returns False, whatever force_sync is, so this is         *)
(* violated.                                                               *)
(***************************************************************************)
C29_SyncWhenDue ==
    [][pc = "ready" /\ pc' = "returned" =>
          IF SyncDue
          THEN sync_outcome' = Outcome(TRUE, TRUE)
          ELSE sync_outcome' = Outcome(FALSE, FALSE) /\ UNCHANGED universities_db]_vars

(***************************************************************************)
(* BaseRankingScraper.make_request (data_pipeline/scrapers/                *)
(* ranking_scraper.py)                                                     *)
(*                                                                         *)
(* An HTTP attempt is self.session.get followed by raise_for_status: it    *)
(* succeeds, or get raises (connection, timeout), or raise_for_status      *)
(* raises (HTTP status); both are requests.RequestException.  The response *)
(* returned is named by the number of the attempt that produced it.        *)
(***************************************************************************)
AttemptOutcomes == {"ok", "connection", "http"}

\* one retry too many
MayRetryOnceMore(made, limit) == made <= limit

\* if retries < self.max_retries
MayRetry(made, limit) == made < limit

\* the largest MAX_RETRIES the runs are made with
MaxRetriesSetting == 3

InitRequest ==
    /\ pc = "request"
    /\ max_retries \in 0..MaxRetriesSetting
    /\ retries = 0
    /\ attempts = <<>>
    /\ response = 0
    /\ sim = EmptyDict
    /\ MatcherIdle /\ IntegratorIdle /\ CleanerIdle /\ ScorerIdle
    /\ CallIdle /\ PipelineIdle /\ CacheIdle /\ ImporterIdle /\ SchedulerIdle

\* time.sleep(self.delay); self.session.get(url, timeout=30);
\* response.raise_for_status(); return response
Attempt ==
    /\ pc = "request"
    /\ \E outcome \in AttemptOutcomes :
          /\ attempts' = Append(attempts, outcome)
          /\ IF outcome = "ok"
             THEN response' = Len(attempts) + 1 /\ pc' = "returned"
             ELSE response' = response /\ pc' = "failed"
    /\ UNCHANGED <<max_retries, retries, sim, matcherVars, integratorVars,
                   cleanerVars, scorerVars, callVars, pipelineVars, cacheVars,
                   importerVars, schedulerVars>>

\* except requests.RequestException: the recursive call after the sleep, or
\* return None
Except ==
    /\ pc = "failed"
    /\ IF MayRetry(retries, max_retries)
       THEN /\ retries' = retries + 1
            /\ pc' = "request"
            /\ UNCHANGED response
       ELSE /\ response' = 0
            /\ pc' = "returned"
            /\ UNCHANGED retries
    /\ UNCHANGED <<max_retries, attempts, sim, matcherVars, integratorVars,
                   cleanerVars, scorerVars, callVars, pipelineVars, cacheVars,
                   importerVars, schedulerVars>>

NextRequest == Attempt \/ Except

\* the call runs on: a step that can be taken is taken
SpecRequest == InitRequest /\ [][NextRequest]_vars /\ WF_vars(NextRequest)

Succeeded == {i \in DOMAIN attempts : attempts[i] = "ok"}

RequestSafe ==
    pc \in {"request", "failed", "returned"} =>
        /\ Len(attempts) <= max_retries + 1
        /\ \A i \in Succeeded : i = Len(attempts)
        /\ pc = "returned" =>
              /\ Succeeded # {} => response \in Succeeded
              /\ response = 0 <=>
                    (Succeeded = {} /\ Len(attempts) = max_retries + 1)

(***************************************************************************)
(* C30: make_request(url) ends after at most max_retries + 1 HTTP          *)
(* attempts; it returns the response of the first attempt that succeeds    *)
(* and makes no attempt after it; it returns None exactly when all         *)
(* max_retries + 1 attempts have failed.                                   *)
(***************************************************************************)
C30_BoundedRetries ==
    []RequestSafe /\ <>(pc = "returned")

\* the last attempt allowed succeeded after every earlier one had failed
C30_Witness ==
    /\ pc = "returned"
    /\ max_retries >= 2
    /\ Len(attempts) = max_retries + 1
    /\ response = max_retries + 1

=============================================================================
